---------------------------- MODULE Spec2Model ----------------------------
(***************************************************************************)
(* Push notification service: the circuit breaker that protects the push   *)
(* gateway and the queue consumer that delivers notifications through it.  *)
(* Source: src/services/push-notification-service/app/main.py              *)
(***************************************************************************)
EXTENDS Integers, Sequences, FiniteSets, TLC

VARIABLES
    breaker,        \* the CircuitBreaker object: its five fields
    now,            \* the wall clock read by datetime.now(), in seconds
    cbLog,          \* history of the calls made on the breaker: how many, how many
                    \* failed in a row from the first on, and the last one
    push_queue,     \* messages waiting in push.queue (head first)
    retry_queue,    \* messages waiting in push.queue.retry
    failed_queue,   \* messages that reached failed.queue
    records,        \* the notifications table: records[id] is the row with that id
    guard,          \* the cache: idempotency key -> time its entry expires
    units,          \* the process_message coroutines: units[u] is idle or
                    \* suspended at one of the awaits of process_message
    last,           \* history: the process_message execution that finished last
    produced,       \* number of messages the producers have published so far
    faults,         \* the environment: for the store, the cache and the broker,
                    \* how many more of the calls made to it will raise
    crashes,        \* number of times the process has died and been restarted
    request,        \* the POST /api/notifications/send in progress, or the last
                    \* one answered, with the calls it made (history)
    versions,       \* template service: the rows of table templateversion
    sessions        \* template service: the requests that create a version,
                    \* each on a worker thread with a database session

cbVars == <<breaker, now, cbLog>>
templateVars == <<versions, sessions>>
restVars == <<request, versions, sessions>>
consumerVarsButRest ==
    <<push_queue, retry_queue, failed_queue, records, guard, units, last, produced, faults,
      crashes>>
queueVars == <<push_queue, retry_queue, failed_queue>>
consumerVars == <<consumerVarsButRest, restVars>>
vars == <<breaker, now, cbLog, push_queue, retry_queue, failed_queue, records, guard,
          units, last, produced, faults, crashes, restVars>>

(***************************************************************************)
(* Bounds of the model.                                                    *)
(***************************************************************************)
MaxThreshold == 3      \* failure_threshold is drawn from 1..MaxThreshold
MaxTimeout == 2        \* timeout is drawn from 0..MaxTimeout
MaxNow == 6            \* the clock stops advancing at MaxNow
MaxCalls == 6          \* calls counted in cbLog
MaxMessages == 2       \* messages the producers publish to push.queue
Units == 2             \* process_message coroutines that may be in flight at once
MaxJumps == 1          \* times the clock jumps past the gateway breaker's timeout
MaxCrashes == 1        \* times the process dies and is restarted
MaxHops == 5           \* executions recorded in the history of a message
MaxRaises == 1         \* calls that a collaborator which is failing lets raise
MaxBurst == 3          \* messages of a burst of plain delivery requests
Racers == 3            \* process_message coroutines in flight at once in SpecRace
MaxBacklog == 11       \* messages of a backlog of plain delivery requests
Tasks == 12            \* process_message coroutines in flight at once in SpecBacklog
MaxPublishes == 3      \* calls of publish_message in SpecPublish
MaxVersions == 3       \* versions created for one template
Workers == 2           \* threads that run create_new_template_version at once

(***************************************************************************)
(* CircuitBreaker (main.py 28-58)                                          *)
(***************************************************************************)
NoTime == -1           \* last_failure_time = None

CircuitOpenError == "Circuit breaker is OPEN"
OpErrors == {"ValueError: boom", "RuntimeError: crash"}
OpResults == {"ok"}
OpDurations == {0, 1}  \* seconds the wrapped operation runs before it returns or raises

\* CircuitBreaker.__init__
NewBreaker(failure_threshold, timeout) ==
    [failure_threshold |-> failure_threshold,
     timeout           |-> timeout,
     failures          |-> 0,
     last_failure_time |-> NoTime,
     state             |-> "CLOSED"]

\* (mutation of CallRejected: the cooldown ends as soon as the timeout is reached)
CallRejectedUntilTimeout(cb, t) ==
    /\ cb.state = "OPEN"
    /\ ~(t - cb.last_failure_time >= cb.timeout)

\* call, lines 37-42: is the call rejected at time t without running func?
CallRejected(cb, t) ==
    /\ cb.state = "OPEN"
    /\ ~(t - cb.last_failure_time > cb.timeout)

\* call, lines 37-40: the breaker as func sees it when it is invoked at time t
CallEntry(cb, t) ==
    IF cb.state = "OPEN" /\ t - cb.last_failure_time > cb.timeout
    THEN [cb EXCEPT !.state = "HALF_OPEN"]
    ELSE cb

\* (mutation of OnSuccess: any success clears the count)
OnSuccessResets(cb) ==
    IF cb.state = "HALF_OPEN"
    THEN [cb EXCEPT !.state = "CLOSED", !.failures = 0]
    ELSE [cb EXCEPT !.failures = 0]

\* (mutation of OnSuccess: a successful probe leaves the state as it is)
OnSuccessStays(cb) ==
    IF cb.state = "HALF_OPEN"
    THEN [cb EXCEPT !.failures = 0]
    ELSE cb

\* (mutation of OnSuccess: a successful probe closes without clearing)
OnSuccessKeepsCount(cb) ==
    IF cb.state = "HALF_OPEN"
    THEN [cb EXCEPT !.state = "CLOSED"]
    ELSE cb

\* call, lines 46-50: func returned
OnSuccess(cb) ==
    IF cb.state = "HALF_OPEN"
    THEN [cb EXCEPT !.state = "CLOSED", !.failures = 0]
    ELSE cb

\* (mutation of OnFailure: the breaker opens one failure late)
OnFailureAboveThreshold(cb, t) ==
    LET counted == [cb EXCEPT !.failures = @ + 1, !.last_failure_time = t]
    IN  IF counted.failures > counted.failure_threshold
        THEN [counted EXCEPT !.state = "OPEN"]
        ELSE counted

\* (mutation of OnFailure: a failed probe does not restart the cooldown)
OnFailureKeepsTime(cb, t) ==
    LET counted ==
            [cb EXCEPT !.failures = @ + 1,
                       !.last_failure_time =
                            IF cb.state = "HALF_OPEN" THEN @ ELSE t]
    IN  IF counted.failures >= counted.failure_threshold
        THEN [counted EXCEPT !.state = "OPEN"]
        ELSE counted

\* call, lines 51-57: func raised at time t
OnFailure(cb, t) ==
    LET counted == [cb EXCEPT !.failures = @ + 1, !.last_failure_time = t]
    IN  IF counted.failures >= counted.failure_threshold
        THEN [counted EXCEPT !.state = "OPEN"]
        ELSE counted

\* (mutation of RaisedError: the operation's error is replaced by the breaker's)
RaisedErrorMasked(rejected, op) ==
    IF rejected THEN CircuitOpenError
    ELSE IF op.ok THEN "none"
    ELSE IF op.error = "RuntimeError: crash" THEN CircuitOpenError ELSE op.error

\* call, line 58 / line 42: what the caller sees raised
RaisedError(rejected, op) ==
    IF rejected THEN CircuitOpenError
    ELSE IF op.ok THEN "none" ELSE op.error

\* (mutation of Call: a rejected call restarts the cooldown)
CallRejectionRestarts(cb, t, op) ==
    IF CallRejected(cb, t)
    THEN [cb |-> [cb EXCEPT !.last_failure_time = t], now |-> t, invoked |-> FALSE,
          at_invoke |-> cb.state, returned |-> "none", raised |-> RaisedError(TRUE, op)]
    ELSE LET entered == CallEntry(cb, t)
             end == t + op.duration
         IN  [cb |-> IF op.ok THEN OnSuccess(entered) ELSE OnFailure(entered, end),
              now |-> end, invoked |-> TRUE, at_invoke |-> entered.state,
              returned |-> IF op.ok THEN op.result ELSE "none",
              raised |-> RaisedError(FALSE, op)]

\* The whole of CircuitBreaker.call(func) entered at time t; op is what func
\* does if it is invoked: [ok, result, error, duration].
\* The answer has the breaker and the clock afterwards and what the caller
\* observes: whether func ran, the state it ran under, the value returned or
\* the error raised.
Call(cb, t, op) ==
    IF CallRejected(cb, t)
    THEN [cb |-> cb, now |-> t, invoked |-> FALSE, at_invoke |-> cb.state,
          returned |-> "none", raised |-> RaisedError(TRUE, op)]
    ELSE LET entered == CallEntry(cb, t)
             end == t + op.duration
         IN  [cb |-> IF op.ok THEN OnSuccess(entered) ELSE OnFailure(entered, end),
              now |-> end, invoked |-> TRUE, at_invoke |-> entered.state,
              returned |-> IF op.ok THEN op.result ELSE "none",
              raised |-> RaisedError(FALSE, op)]

Ops ==
    [ok : {TRUE}, result : OpResults, error : {"none"}, duration : OpDurations]
    \cup [ok : {FALSE}, result : {"none"}, error : OpErrors, duration : OpDurations]

\* cbLog.last before any call
NoCall ==
    [before |-> NewBreaker(1, 0), entered_at |-> NoTime,
     op |-> [ok |-> TRUE, result |-> "none", error |-> "none", duration |-> 0],
     invoked |-> FALSE, at_invoke |-> "none", returned |-> "none",
     raised |-> "none", after |-> NewBreaker(1, 0), left_at |-> NoTime]

(***************************************************************************)
(* Values of the service.                                                  *)
(***************************************************************************)
NoId == 0              \* notification_id = None; rows have ids 1, 2, ...
NoKey == "None"        \* idempotency_key = None
NoCount == -1          \* retry_count = None
NoError == "None"      \* error_message = None

max_retries == 3       \* NotificationConsumer.max_retries
MinTokenLen == 10      \* len(payload.token) < 10
BackoffBase == 5       \* delay = (2 ** retry_count) * 5
IdempotencyTtl == 86400    \* set_idempotency(key, ttl=86400)
prefetch_count == 10   \* channel.set_qos(prefetch_count=10)
GatewayThreshold == 5  \* CircuitBreaker(failure_threshold=5, timeout=60)
GatewayTimeout == 60

PUSH == "push.queue"
RETRY == "push.queue.retry"
DEAD == "failed.queue"

(***************************************************************************)
(* Python dicts: a dict is a function from the keys it holds.              *)
(***************************************************************************)
EmptyDict == [k \in {} |-> NoId]

\* d.get(k, default)
Get(d, k, default) == IF k \in DOMAIN d THEN d[k] ELSE default

\* {**d, k: v}  and  d[k] = v
Put(d, k, v) == [x \in (DOMAIN d) \cup {k} |-> IF x = k THEN v ELSE d[x]]

\* bool(d)
Truthy(d) == DOMAIN d # {}

(***************************************************************************)
(* PushNotificationPayload (schemas.py 16-25).  A token is modelled by its *)
(* length, the only thing the consumer reads of it; "title" stands for the *)
(* required text fields title and body.                                    *)
(***************************************************************************)
RequiredFields == {"title", "token"}

\* PushNotificationPayload(**data) does not raise
PayloadValid(data) == RequiredFields \subseteq DOMAIN data

\* payload.idempotency_key
IdempotencyKeyOf(data) == Get(data, "idempotency_key", NoKey)

\* (mutation of TokenInvalid: the minimum length is off by one)
TokenInvalidBelowNine(data) == data["token"] = 0 \/ data["token"] < MinTokenLen - 1

\* main.py 404: not payload.token or len(payload.token) < 10
TokenInvalid(data) == data["token"] = 0 \/ data["token"] < MinTokenLen

(***************************************************************************)
(* DatabaseManager (main.py 231-310) over the notifications table          *)
(* (models.py 10-28).  `written` is history: every status the row has had. *)
(***************************************************************************)
\* models.py 13: idempotency_key is unique (NULLs excepted)
KeyTaken(rows, key) ==
    key # NoKey /\ \E id \in 1..Len(rows) : rows[id].idempotency_key = key

\* create_notification: the row inserted, or the IntegrityError of the
\* unique index
CreateNotification(rows, notification_data) ==
    LET key == Get(notification_data, "idempotency_key", NoKey)
        row == [idempotency_key |-> key,
                device_token    |-> Get(notification_data, "token", 0),
                title           |-> Get(notification_data, "title", "None"),
                status          |-> Get(notification_data, "status", "pending"),
                retry_count     |-> Get(notification_data, "retry_count", 0),
                error_message   |-> NoError,
                sent_at         |-> NoTime,
                written         |-> <<Get(notification_data, "status", "pending")>>]
    IN  IF KeyTaken(rows, key)
        THEN [ok |-> FALSE, rows |-> rows, id |-> NoId]
        ELSE [ok |-> TRUE, rows |-> Append(rows, row), id |-> Len(rows) + 1]

\* (mutation of UpdateNotificationStatus: sent_at is not set)
UpdateNotificationStatusNoSentAt(rows, id, status, error_message, retry_count, t) ==
    IF id \in 1..Len(rows)
    THEN [rows EXCEPT ![id] =
            [@ EXCEPT !.status = status,
                      !.error_message = IF error_message # NoError THEN error_message ELSE @,
                      !.retry_count = IF retry_count # NoCount THEN retry_count ELSE @,
                      !.written = Append(@, status)]]
    ELSE rows

\* update_notification_status at time t; a missing row is left alone
UpdateNotificationStatus(rows, id, status, error_message, retry_count, t) ==
    IF id \in 1..Len(rows)
    THEN [rows EXCEPT ![id] =
            [@ EXCEPT !.status = status,
                      !.error_message = IF error_message # NoError THEN error_message ELSE @,
                      !.retry_count = IF retry_count # NoCount THEN retry_count ELSE @,
                      !.sent_at = IF status = "sent" THEN t ELSE @,
                      !.written = Append(@, status)]]
    ELSE rows

(***************************************************************************)
(* CacheManager (main.py 209-229)                                          *)
(***************************************************************************)
\* (mutation of CheckIdempotency: the entry is looked up under the bare key,
\* not under "notification:" + key, and is never found)
CheckIdempotencyBareKey(cache, key, t) == FALSE /\ key \in DOMAIN cache

\* check_idempotency at time t
CheckIdempotency(cache, key, t) == key \in DOMAIN cache /\ t < cache[key]

\* (mutation of SetIdempotency: the entry is written already expired)
SetIdempotencyExpired(cache, key, ttl, t) == Put(cache, key, t)

\* set_idempotency at time t: SETEX key ttl "1"
SetIdempotency(cache, key, ttl, t) == Put(cache, key, t + ttl)

(***************************************************************************)
(* MessageQueueManager (main.py 134-206)                                   *)
(***************************************************************************)
\* json.loads(message.body.decode()) succeeds
Parses(msg) == msg.body.json

\* bool(key) for key a str or None: None and the empty string are falsy
KeyTruthy(key) == key \notin {NoKey, ""}

\* (mutation of MessageOf: the key is used whenever the dict holds one)
MessageOfKeyPresent(message, lineage, uuid) ==
    [body |-> [json |-> TRUE, data |-> message],
     delivery_mode |-> "PERSISTENT",
     correlation_id |->
        IF "idempotency_key" \in DOMAIN message
        THEN message["idempotency_key"] ELSE uuid,
     lineage |-> lineage]

\* publish_message, lines 196-200: the aio_pika.Message built for a dict,
\* with `uuid` the value that str(uuid.uuid4()) returns if it is called.  The
\* body is the JSON text of `message`, written as the dict that it denotes.
\* `lineage` is history: the executions of process_message that led to it.
MessageOf(message, lineage, uuid) ==
    [body |-> [json |-> TRUE, data |-> message],
     delivery_mode |-> "PERSISTENT",
     correlation_id |->
        IF KeyTruthy(Get(message, "idempotency_key", NoKey))
        THEN Get(message, "idempotency_key", NoKey) ELSE uuid,
     lineage |-> lineage]

\* nothing in the service reads correlation_id: where the value drawn does
\* not matter it is written "uuid4"
NewMessage(message, lineage) == MessageOf(message, lineage, "uuid4")

\* history: the lineage of a message published by an execution with this
\* trace; executions beyond the first MaxHops are not recorded
Extend(lineage, trace) ==
    IF Len(lineage) < MaxHops THEN Append(lineage, trace) ELSE lineage

\* a body that json.loads rejects (line 392)
Unparseable == [NewMessage(EmptyDict, <<>>) EXCEPT !.body.json = FALSE]

\* the queue bound to routing key `name` after a publish with `routing_key`
\* (direct exchange, lines 182-184)
Bound(queue, name, routing_key, msg) ==
    IF routing_key = name THEN Append(queue, msg) ELSE queue

\* exchange.publish(msg, routing_key)
Publish(routing_key, msg) ==
    /\ push_queue' = Bound(push_queue, PUSH, routing_key, msg)
    /\ retry_queue' = Bound(retry_queue, RETRY, routing_key, msg)
    /\ failed_queue' = Bound(failed_queue, DEAD, routing_key, msg)

(***************************************************************************)
(* NotificationConsumer.process_message (main.py 385-485).                 *)
(*                                                                         *)
(* The coroutine runs on one event loop: between two awaits nothing else   *)
(* runs.  A unit is idle or suspended at an await; pc names the await, and *)
(* each action below performs the awaited call and runs the code that      *)
(* follows it up to the next await.  send_push_notification is a plain     *)
(* (blocking) call, so it belongs to the step that reaches it.             *)
(* `trace` is history: the collaborator calls the execution has made.      *)
(***************************************************************************)
NoMessage == NewMessage(EmptyDict, <<>>)

IdleUnit ==
    [pc |-> "idle", msg |-> NoMessage, data |-> EmptyDict, notification_id |-> NoId,
     retry_count |-> NoCount, error |-> NoError, delay |-> 0, trace |-> <<>>]

Log(u, event) == [u EXCEPT !.trace = Append(@, event)]

LastOf(seq) == seq[Len(seq)]

\* no row: what get_notification_by_id returns for an unknown id
NoRow ==
    [idempotency_key |-> NoKey, device_token |-> 0, title |-> "None", status |-> "None",
     retry_count |-> 0, error_message |-> NoError, sent_at |-> NoTime, written |-> <<>>]

\* no request has been received yet
NoRequest ==
    [pc |-> "idle", payload |-> EmptyDict, notification_id |-> NoId,
     response |-> "none", trace |-> <<>>]

\* `last` before any execution has finished
NoExecution ==
    [pc |-> "idle", msg |-> NoMessage, data |-> EmptyDict, notification_id |-> NoId,
     retry_count |-> NoCount, error |-> NoError, delay |-> 0, trace |-> <<>>,
     row |-> NoRow, retry_tail |-> NoMessage, failed_tail |-> NoMessage,
     guard |-> EmptyDict, at |-> 0]

Dequeued(queue, msg) ==
    [ev |-> "dequeue", queue |-> queue, parsed |-> Parses(msg),
     attempt |-> IF Parses(msg) THEN Get(msg.body.data, "retry_count", 0) ELSE 0,
     notification_id |->
        IF Parses(msg) THEN Get(msg.body.data, "notification_id", NoId) ELSE NoId]
Checked(key, found) == [ev |-> "check_idempotency", key |-> key, found |-> found]
Created(status, ok, id) == [ev |-> "create_notification", status |-> status, ok |-> ok, id |-> id]
Updated(id, status, error_message, retry_count, ok) ==
    [ev |-> "update_notification_status", id |-> id, status |-> status,
     error_message |-> error_message, retry_count |-> retry_count, ok |-> ok]
Sent(r) ==
    [ev |-> "send_push_notification", invoked |-> r.invoked, returned |-> r.returned,
     raised |-> r.raised]
Marked(key, ttl, ok) == [ev |-> "set_idempotency", key |-> key, ttl |-> ttl, ok |-> ok]
Slept(delay) == [ev |-> "sleep", delay |-> delay]
Published(routing_key, message, ok) ==
    [ev |-> "publish_message", routing_key |-> routing_key, message |-> message, ok |-> ok]
Acked == [ev |-> "ack"]
Rejected == [ev |-> "reject"]

\* what the awaited collaborator may do: answer, or raise while the
\* environment still has a failure in store for it
Collaborators == {"store", "cache", "broker"}
NoFaults == [c \in Collaborators |-> 0]
StoreOutcomes == IF faults["store"] > 0 THEN {"ok", "raise"} ELSE {"ok"}
CacheOutcomes == IF faults["cache"] > 0 THEN {"ok", "raise"} ELSE {"ok"}
BrokerOutcomes == IF faults["broker"] > 0 THEN {"ok", "raise"} ELSE {"ok"}

\* the failures left once `collaborator` has answered with `outcome`
Remaining(collaborator, outcome) ==
    IF outcome = "raise" THEN [faults EXCEPT ![collaborator] = @ - 1] ELSE faults

\* what _send does when the breaker lets it run (main.py 89-129)
GatewayOps ==
    { [ok |-> TRUE, result |-> "fcm response", error |-> "none", duration |-> 0],
      [ok |-> FALSE, result |-> "none", error |-> "FCM Error: UNAVAILABLE", duration |-> 0] }

\* (mutation of ShouldRetry: one retry too many)
ShouldRetryInclusive(retry_count) == retry_count <= max_retries

\* line 468: retry_count < self.max_retries
ShouldRetry(retry_count) == retry_count < max_retries

\* (mutation of OutcomeStatus: a failed attempt puts the record back to pending)
OutcomeStatusPending(retry_count) ==
    IF retry_count < max_retries THEN "pending" ELSE "failed"

\* (mutation of OutcomeStatus: the last attempt is still written as retrying)
OutcomeStatusInclusive(retry_count) ==
    IF retry_count <= max_retries THEN "retrying" ELSE "failed"

\* line 461: the status written for the failed attempt
OutcomeStatus(retry_count) == IF retry_count < max_retries THEN "retrying" ELSE "failed"

\* (mutation of Backoff: the delay is computed from the incremented count)
BackoffOfNextAttempt(retry_count) == (2 ^ (retry_count + 1)) * BackoffBase

\* line 469: delay = (2 ** retry_count) * 5
Backoff(retry_count) == (2 ^ retry_count) * BackoffBase

\* (mutation of RetryMessage: the attempt count is not advanced)
RetryMessageSameAttempt(data, retry_count, notification_id) ==
    IF Truthy(data)
    THEN Put(Put(data, "retry_count", retry_count), "notification_id", notification_id)
    ELSE data

\* (mutation of RetryMessage: the record id is not carried on)
RetryMessageDropsId(data, retry_count, notification_id) ==
    IF Truthy(data)
    THEN Put(data, "retry_count", retry_count + 1)
    ELSE data

\* lines 470-472: data as republished on the retry routing key
RetryMessage(data, retry_count, notification_id) ==
    IF Truthy(data)
    THEN Put(Put(data, "retry_count", retry_count + 1), "notification_id", notification_id)
    ELSE data

\* (mutation of DeadLetterMessage: the record id is left out)
DeadLetterMessageBare(data, error, notification_id) == Put(data, "error", error)

\* lines 426 and 483: the dict published on the dead-letter routing key
DeadLetterMessage(data, error, notification_id) ==
    Put(Put(data, "error", error), "notification_id", notification_id)

\* (mutation of RetryDecision: the retry branch returns, and so acknowledges,
\* before the message has been republished)
RetryDecisionAckFirst(u) ==
    IF ShouldRetry(u.retry_count)
    THEN [u EXCEPT !.pc = "ack",
                   !.delay = Backoff(u.retry_count),
                   !.data = RetryMessage(u.data, u.retry_count, u.notification_id)]
    ELSE [u EXCEPT !.pc = "publish_dead_letter"]

\* lines 468-484 up to the await: sleep before a retry, or go to the
\* dead-letter publish
RetryDecision(u) ==
    IF ShouldRetry(u.retry_count)
    THEN [u EXCEPT !.pc = "sleep",
                   !.delay = Backoff(u.retry_count),
                   !.data = RetryMessage(u.data, u.retry_count, u.notification_id)]
    ELSE [u EXCEPT !.pc = "publish_dead_letter"]

\* (mutation of EnterHandler: a call refused by the breaker is given up at once)
EnterHandlerOpenIsTerminal(u, e) ==
    LET v == [u EXCEPT !.error = e,
                       !.retry_count =
                            IF e = CircuitOpenError THEN max_retries
                            ELSE IF Truthy(u.data) THEN Get(u.data, "retry_count", 0) ELSE 0]
    IN  IF v.notification_id # NoId
        THEN [v EXCEPT !.pc = "update_outcome"]
        ELSE RetryDecision(v)

\* lines 453-457: an exception e reaches the handler
EnterHandler(u, e) ==
    LET v == [u EXCEPT !.error = e,
                       !.retry_count =
                            IF Truthy(u.data) THEN Get(u.data, "retry_count", 0) ELSE 0]
    IN  IF v.notification_id # NoId
        THEN [v EXCEPT !.pc = "update_outcome"]
        ELSE RetryDecision(v)

\* lines 404-441 up to the await: which store call comes next
AfterIdempotencyCheck(u) ==
    IF TokenInvalid(u.data)
    THEN [u EXCEPT !.pc = IF u.notification_id = NoId
                          THEN "create_failed" ELSE "update_failed"]
    ELSE [u EXCEPT !.pc = IF u.notification_id = NoId
                          THEN "create_processing" ELSE "update_processing"]

\* lines 387-400 up to the first await
Started(u) ==
    IF ~Parses(u.msg)
    THEN EnterHandler(u, "JSONDecodeError")
    ELSE LET data == u.msg.body.data
             v == [u EXCEPT !.data = data,
                            !.notification_id = Get(data, "notification_id", NoId)]
         IN  IF ~PayloadValid(data) THEN EnterHandler(v, "ValidationError")
             ELSE IF IdempotencyKeyOf(data) # NoKey
                  THEN [v EXCEPT !.pc = "check_idempotency"]
                  ELSE AfterIdempotencyCheck(v)

\* (mutation of AfterSend: a failed call is tried again in place)
AfterSendAgain(u, r) ==
    IF r.raised # "none" THEN [u EXCEPT !.pc = "send"]
    ELSE IF u.notification_id # NoId THEN [u EXCEPT !.pc = "update_sent"]
    ELSE IF IdempotencyKeyOf(u.data) # NoKey THEN [u EXCEPT !.pc = "set_idempotency"]
    ELSE [u EXCEPT !.pc = "ack"]

\* lines 443-449 up to the await, r being what circuit_breaker.call did
AfterSend(u, r) ==
    IF r.raised # "none" THEN EnterHandler(u, r.raised)
    ELSE IF u.notification_id # NoId THEN [u EXCEPT !.pc = "update_sent"]
    ELSE IF IdempotencyKeyOf(u.data) # NoKey THEN [u EXCEPT !.pc = "set_idempotency"]
    ELSE [u EXCEPT !.pc = "ack"]

(***************************************************************************)
(* The steps of process_message, for the unit i.                           *)
(***************************************************************************)
\* history kept of an execution when it finishes: the unit, and what it left
\* behind in the state it finished in: the row of its record, the newest
\* message of the retry and dead-letter queues, the guard, the time
Finished(u, how, event) ==
    [pc |-> how, msg |-> u.msg, data |-> u.data, notification_id |-> u.notification_id,
     retry_count |-> u.retry_count, error |-> u.error, delay |-> u.delay,
     trace |-> Append(u.trace, event),
     row |-> IF u.notification_id \in 1..Len(records')
             THEN records'[u.notification_id] ELSE NoRow,
     retry_tail |-> IF retry_queue' # <<>> THEN LastOf(retry_queue') ELSE NoMessage,
     failed_tail |-> IF failed_queue' # <<>> THEN LastOf(failed_queue') ELSE NoMessage,
     guard |-> guard',
     at |-> now']

\* the units that are inside send_push_notification
Blocking == {j \in DOMAIN units : units[j].pc = "send"}

\* (mutation of LoopFreeFor: callbacks run on threads of their own)
LoopFreeForThreads(i) == TRUE

\* the event loop runs one coroutine at a time and a coroutine gives the
\* loop back only at an await: while a unit is inside send_push_notification
\* no other callback of the process runs
LoopFreeFor(i) == Blocking \subseteq {i}

\* unit i goes on as u: suspended at its next await, or, leaving
\* `async with message.process()` normally (line 386), acknowledged
Resume(i, u) ==
    IF u.pc = "ack"
    THEN /\ units' = [units EXCEPT ![i] = IdleUnit]
         /\ last' = Finished(u, "ack", Acked)
    ELSE /\ units' = [units EXCEPT ![i] = u]
         /\ UNCHANGED last

\* (mutation of Reject: the queues have no dead-letter exchange, a rejected
\* message is dropped)
RejectDropped(i, u) ==
    /\ UNCHANGED <<push_queue, retry_queue, failed_queue>>
    /\ units' = [units EXCEPT ![i] = IdleUnit]
    /\ last' = Finished(u, "reject", Rejected)

\* an exception leaves process_message: message.process() rejects the
\* message without requeue and the queue's x-dead-letter-routing-key
\* (lines 161-164, 171-174) sends it to failed.queue
Reject(i, u) ==
    /\ failed_queue' = Append(failed_queue,
            [u.msg EXCEPT !.lineage = Extend(@, Append(u.trace, Rejected))])
    /\ UNCHANGED <<push_queue, retry_queue>>
    /\ units' = [units EXCEPT ![i] = IdleUnit]
    /\ last' = Finished(u, "reject", Rejected)

\* the broker hands the head of push.queue or push.queue.retry to
\* process_message (start_consuming, lines 487-492); lines 386-400
\* the unacknowledged deliveries that came from `queue`, in the order of the
\* units that hold them
Unacked(queue) ==
    LET holders == SelectSeq(units, LAMBDA u : u.pc # "idle" /\ u.trace[1].queue = queue)
    IN  [k \in 1..Len(holders) |-> holders[k].msg]

\* set_qos(prefetch_count=10) without global_: the broker applies the limit to
\* each consumer that is started on the channel afterwards (lines 491, 492)
WithinPrefetch(queue) == Len(Unacked(queue)) < prefetch_count

Receive(i) ==
    /\ units[i].pc = "idle"
    /\ LoopFreeFor(i)
    /\ UNCHANGED <<breaker, now, cbLog, failed_queue, records, guard, produced, faults, crashes, restVars>>
    /\ \E q \in {PUSH, RETRY} :
        LET queue == IF q = PUSH THEN push_queue ELSE retry_queue
        IN  /\ queue # <<>>
            /\ WithinPrefetch(q)
            /\ push_queue' = IF q = PUSH THEN Tail(push_queue) ELSE push_queue
            /\ retry_queue' = IF q = RETRY THEN Tail(retry_queue) ELSE retry_queue
            /\ Resume(i, Started([IdleUnit EXCEPT
                    !.pc = "start", !.msg = Head(queue),
                    !.trace = <<Dequeued(q, Head(queue))>>]))

\* lines 400-402, then 404-441 up to the await
CheckDuplicate(i) ==
    LET u == units[i]
        key == IdempotencyKeyOf(u.data)
    IN  /\ u.pc = "check_idempotency"
        /\ LoopFreeFor(i)
        /\ UNCHANGED <<breaker, now, cbLog, queueVars, records, guard, produced, crashes, restVars>>
        /\ \E outcome \in CacheOutcomes :
            /\ faults' = Remaining("cache", outcome)
            /\ IF outcome = "raise"
               THEN Resume(i, EnterHandler(u, "ConnectionError"))
               ELSE LET found == CheckIdempotency(guard, key, now)
                        v == Log(u, Checked(key, found))
                    IN  IF found THEN Resume(i, [v EXCEPT !.pc = "ack"])
                        ELSE Resume(i, AfterIdempotencyCheck(v))

\* lines 407-416: the record of an invalid token is created as failed
CreateFailed(i) ==
    LET u == units[i]
        notification_data ==
            Put(Put(u.data, "status", "failed"), "error_message", "Invalid device token")
    IN  /\ u.pc = "create_failed"
        /\ LoopFreeFor(i)
        /\ UNCHANGED <<breaker, now, cbLog, queueVars, guard, produced, crashes, restVars>>
        /\ \E outcome \in StoreOutcomes :
            /\ faults' = Remaining("store", outcome)
            /\ LET c == IF outcome = "raise"
                        THEN [ok |-> FALSE, rows |-> records, id |-> NoId]
                        ELSE CreateNotification(records, notification_data)
                   v == Log(u, Created("failed", c.ok, c.id))
               IN  /\ records' = c.rows
                   /\ Resume(i, [v EXCEPT !.notification_id = IF c.ok THEN c.id ELSE @,
                                          !.pc = "publish_invalid"])

\* lines 418-422: the known record of an invalid token is updated to failed
UpdateFailed(i) ==
    LET u == units[i]
    IN  /\ u.pc = "update_failed"
        /\ LoopFreeFor(i)
        /\ UNCHANGED <<breaker, now, cbLog, queueVars, guard, produced, crashes, restVars>>
        /\ \E outcome \in StoreOutcomes :
            /\ faults' = Remaining("store", outcome)
            /\ LET v == Log(u, Updated(u.notification_id, "failed", "Invalid device token",
                                       NoCount, outcome = "ok"))
               IN  IF outcome = "raise"
                   THEN /\ Resume(i, EnterHandler(v, "OperationalError"))
                        /\ UNCHANGED records
                   ELSE /\ records' = UpdateNotificationStatus(records, u.notification_id,
                                           "failed", "Invalid device token", NoCount, now)
                        /\ Resume(i, [v EXCEPT !.pc = "publish_invalid"])

\* lines 424-428: the invalid message goes to the dead-letter routing key
PublishInvalid(i) ==
    LET u == units[i]
        message == DeadLetterMessage(u.data, "Invalid device token", u.notification_id)
    IN  /\ u.pc = "publish_invalid"
        /\ LoopFreeFor(i)
        /\ UNCHANGED <<breaker, now, cbLog, records, guard, produced, crashes, restVars>>
        /\ \E outcome \in BrokerOutcomes :
            /\ faults' = Remaining("broker", outcome)
            /\ LET v == Log(u, Published(DEAD, message, outcome = "ok"))
               IN  IF outcome = "raise"
                   THEN /\ Resume(i, EnterHandler(v, "AMQPError"))
                        /\ UNCHANGED queueVars
                   ELSE /\ Publish(DEAD, NewMessage(message, Extend(u.msg.lineage, v.trace)))
                        /\ Resume(i, [v EXCEPT !.pc = "ack"])

\* lines 431-439: the store has answered and the coroutine runs on, without
\* an await, into send_push_notification (line 443)
CreateProcessing(i) ==
    LET u == units[i]
        notification_data == Put(u.data, "status", "processing")
    IN  /\ u.pc = "create_processing"
        /\ LoopFreeFor(i)
        /\ UNCHANGED <<breaker, now, cbLog, queueVars, guard, produced, crashes, restVars>>
        /\ \E outcome \in StoreOutcomes :
            /\ faults' = Remaining("store", outcome)
            /\ LET c == IF outcome = "raise"
                        THEN [ok |-> FALSE, rows |-> records, id |-> NoId]
                        ELSE CreateNotification(records, notification_data)
                   v == Log(u, Created("processing", c.ok, c.id))
               IN  /\ records' = c.rows
                   /\ Resume(i, [v EXCEPT !.pc = "send",
                                           !.notification_id = IF c.ok THEN c.id ELSE @])

\* line 441: the store has answered and the coroutine runs on, without an
\* await, into send_push_notification (line 443)
UpdateProcessing(i) ==
    LET u == units[i]
    IN  /\ u.pc = "update_processing"
        /\ LoopFreeFor(i)
        /\ UNCHANGED <<breaker, now, cbLog, queueVars, guard, produced, crashes, restVars>>
        /\ \E outcome \in StoreOutcomes :
            /\ faults' = Remaining("store", outcome)
            /\ LET v == Log(u, Updated(u.notification_id, "processing", NoError, NoCount,
                                       outcome = "ok"))
               IN  IF outcome = "raise"
                   THEN /\ Resume(i, EnterHandler(v, "OperationalError"))
                        /\ UNCHANGED records
                   ELSE /\ records' = UpdateNotificationStatus(records, u.notification_id,
                                           "processing", NoError, NoCount, now)
                        /\ Resume(i, [v EXCEPT !.pc = "send"])

\* line 443: send_push_notification returns or raises.  It is an ordinary
\* function: circuit_breaker.call(_send) runs requests.post (line 122) on
\* the thread of the event loop, from the state where the store call
\* before it returned to the state where the coroutine reaches its next
\* await or its end.
SendPush(i) ==
    LET u == units[i]
    IN  /\ u.pc = "send"
        /\ UNCHANGED <<cbLog, queueVars, records, guard, produced, faults, crashes, restVars>>
        /\ \E op \in GatewayOps :
            LET r == Call(breaker, now, op)
            IN  /\ breaker' = r.cb
                /\ now' = r.now
                /\ Resume(i, AfterSend(Log(u, Sent(r)), r))

\* lines 445-449: the record is marked sent
UpdateSent(i) ==
    LET u == units[i]
    IN  /\ u.pc = "update_sent"
        /\ LoopFreeFor(i)
        /\ UNCHANGED <<breaker, now, cbLog, queueVars, guard, produced, crashes, restVars>>
        /\ \E outcome \in StoreOutcomes :
            /\ faults' = Remaining("store", outcome)
            /\ LET v == Log(u, Updated(u.notification_id, "sent", NoError, NoCount,
                                       outcome = "ok"))
               IN  IF outcome = "raise"
                   THEN /\ Resume(i, EnterHandler(v, "OperationalError"))
                        /\ UNCHANGED records
                   ELSE /\ records' = UpdateNotificationStatus(records, u.notification_id,
                                           "sent", NoError, NoCount, now)
                        /\ Resume(i, [v EXCEPT !.pc =
                               IF IdempotencyKeyOf(u.data) # NoKey
                               THEN "set_idempotency" ELSE "ack"])

\* lines 448-451: the idempotency key is marked in the cache
MarkDone(i) ==
    LET u == units[i]
        key == IdempotencyKeyOf(u.data)
    IN  /\ u.pc = "set_idempotency"
        /\ LoopFreeFor(i)
        /\ UNCHANGED <<breaker, now, cbLog, queueVars, records, produced, crashes, restVars>>
        /\ \E outcome \in CacheOutcomes :
            /\ faults' = Remaining("cache", outcome)
            /\ LET v == Log(u, Marked(key, IdempotencyTtl, outcome = "ok"))
               IN  IF outcome = "raise"
                   THEN /\ Resume(i, EnterHandler(v, "ConnectionError"))
                        /\ UNCHANGED guard
                   ELSE /\ guard' = SetIdempotency(guard, key, IdempotencyTtl, now)
                        /\ Resume(i, [v EXCEPT !.pc = "ack"])

\* lines 457-466, then 468-484 up to the await: the failed attempt is
\* written to the record; a store error is logged and swallowed
UpdateOutcome(i) ==
    LET u == units[i]
        status == OutcomeStatus(u.retry_count)
    IN  /\ u.pc = "update_outcome"
        /\ LoopFreeFor(i)
        /\ UNCHANGED <<breaker, now, cbLog, queueVars, guard, produced, crashes, restVars>>
        /\ \E outcome \in StoreOutcomes :
            /\ faults' = Remaining("store", outcome)
            /\ /\ records' = IF outcome = "raise" THEN records
                             ELSE UpdateNotificationStatus(records, u.notification_id,
                                       status, u.error, u.retry_count, now)
               /\ Resume(i, RetryDecision(
                       Log(u, Updated(u.notification_id, status, u.error, u.retry_count,
                                      outcome = "ok"))))

\* line 474: await asyncio.sleep(delay) returns
Sleep(i) ==
    LET u == units[i]
    IN  /\ u.pc = "sleep"
        /\ LoopFreeFor(i)
        /\ UNCHANGED <<breaker, now, cbLog, queueVars, records, guard, produced, faults,
                       crashes, restVars>>
        /\ Resume(i, [Log(u, Slept(u.delay)) EXCEPT !.pc = "publish_retry"])

\* lines 475-479: the message is republished on the retry routing key
PublishRetry(i) ==
    LET u == units[i]
        message == IF Truthy(u.data) THEN u.data ELSE EmptyDict
    IN  /\ u.pc = "publish_retry"
        /\ LoopFreeFor(i)
        /\ UNCHANGED <<breaker, now, cbLog, records, guard, produced, crashes, restVars>>
        /\ \E outcome \in BrokerOutcomes :
            /\ faults' = Remaining("broker", outcome)
            /\ LET v == Log(u, Published(RETRY, message, outcome = "ok"))
               IN  IF outcome = "raise"
                   THEN Reject(i, v)
                   ELSE /\ Publish(RETRY, NewMessage(message, Extend(u.msg.lineage, v.trace)))
                        /\ Resume(i, [v EXCEPT !.pc = "ack"])

\* lines 481-485: the message is published on the dead-letter routing key
PublishDeadLetter(i) ==
    LET u == units[i]
        message == DeadLetterMessage(IF Truthy(u.data) THEN u.data ELSE EmptyDict,
                                     u.error, u.notification_id)
    IN  /\ u.pc = "publish_dead_letter"
        /\ LoopFreeFor(i)
        /\ UNCHANGED <<breaker, now, cbLog, records, guard, produced, crashes, restVars>>
        /\ \E outcome \in BrokerOutcomes :
            /\ faults' = Remaining("broker", outcome)
            /\ LET v == Log(u, Published(DEAD, message, outcome = "ok"))
               IN  IF outcome = "raise"
                   THEN Reject(i, v)
                   ELSE /\ Publish(DEAD, NewMessage(message, Extend(u.msg.lineage, v.trace)))
                        /\ Resume(i, [v EXCEPT !.pc = "ack"])

(***************************************************************************)
(* Producers of push.queue.                                                *)
(***************************************************************************)
TokenLens == {9, 10}           \* lengths of the device tokens offered
Keys == {"k1"}                 \* idempotency keys chosen by clients
UuidKeys == <<"uuid-1", "uuid-2", "uuid-3", "uuid-4">>   \* str(uuid.uuid4()), in order

\* the payloads clients submit: idempotency_key is a client's key or None
Payloads ==
    { [title |-> "Hello", token |-> t, idempotency_key |-> k] :
        t \in TokenLens, k \in Keys \cup {NoKey} }

\* a producer outside the service publishes a delivery request that names no
\* record, as the messages of tests/test_notification_consumer.py do
Produce ==
    /\ produced < MaxMessages
    /\ \E payload \in Payloads :
        LET message == IF payload.idempotency_key = NoKey
                       THEN [f \in {"title", "token"} |-> payload[f]]
                       ELSE payload
        IN  Publish(PUSH, NewMessage(message, <<>>))
    /\ produced' = produced + 1
    /\ UNCHANGED <<breaker, now, cbLog, records, guard, units, last, faults, crashes, restVars>>

\* a producer outside the service publishes a body that is not JSON, or a
\* JSON object without the token that PushNotificationPayload requires
ProduceMalformed ==
    /\ produced < MaxMessages
    /\ \E msg \in {Unparseable, NewMessage([title |-> "Hello"], <<>>)} :
            Publish(PUSH, msg)
    /\ produced' = produced + 1
    /\ UNCHANGED <<breaker, now, cbLog, records, guard, units, last, faults, crashes, restVars>>

\* a producer outside the service publishes a JSON object that
\* PushNotificationPayload rejects: the empty object, or one without token
InvalidPayloads == {EmptyDict, [title |-> "Hello"]}

ProduceInvalid ==
    /\ produced < MaxMessages
    /\ \E data \in InvalidPayloads : Publish(PUSH, NewMessage(data, <<>>))
    /\ produced' = produced + 1
    /\ UNCHANGED <<breaker, now, cbLog, records, guard, units, last, faults, crashes, restVars>>

\* POST /api/notifications/send (main.py 567-625): a request without a key
\* gets a fresh one; a key found in the cache, or refused by the unique
\* index, queues nothing
send_notification ==
    /\ produced < MaxMessages
    /\ Blocking = {}
    /\ \E payload \in Payloads :
        LET key == IF payload.idempotency_key = NoKey
                   THEN UuidKeys[produced + 1] ELSE payload.idempotency_key
            dict == Put(payload, "idempotency_key", key)
            c == CreateNotification(records,
                    Put(Put(dict, "status", "pending"), "retry_count", 0))
            message == Put(Put(dict, "retry_count", 0), "notification_id", c.id)
        IN  IF CheckIdempotency(guard, key, now) \/ ~c.ok
            THEN UNCHANGED <<records, queueVars>>
            ELSE /\ records' = c.rows
                 /\ Publish(PUSH, NewMessage(message, <<>>))
    /\ produced' = produced + 1
    /\ UNCHANGED <<breaker, now, cbLog, guard, units, last, faults, crashes, restVars>>

(***************************************************************************)
(* send_notification await by await (main.py 567-625).  The handler is a   *)
(* coroutine of the event loop of process_message: `request.pc` names the  *)
(* await it is suspended at, and each action performs the awaited call and *)
(* runs the code that follows it up to the next await.  One request is     *)
(* handled at a time.  `request.trace` is history.                         *)
(***************************************************************************)
LookedUp(key, ok) == [ev |-> "get_notification_by_idempotency_key", key |-> key, ok |-> ok]

\* the APIResponse returned: lines 577-590, 609-617, 621-625
Responses == {"already processed", "queued", "error"}

\* (mutation of QueuedMessage: the record id is not put into the message)
QueuedMessageWithoutId(payload, notification_id, t) ==
    Put(Put(payload, "retry_count", 0), "queued_at", t)

\* lines 597-600: the dict published for the request
QueuedMessage(payload, notification_id, t) ==
    Put(Put(Put(payload, "retry_count", 0), "queued_at", t),
        "notification_id", notification_id)

\* line 619: except Exception
Caught == [ev |-> "except"]

\* `return APIResponse(...).dict()`: the handler ends; the error response is
\* the one of the except block (lines 619-625)
Respond(r, response) ==
    request' = [r EXCEPT !.pc = "idle", !.response = response,
                         !.trace = IF response = "error" THEN Append(@, Caught) ELSE @]

\* lines 570-574 up to the await: a request without a key gets a fresh one
ReceiveRequest ==
    /\ request.pc = "idle"
    /\ produced < MaxMessages
    /\ Blocking = {}
    /\ \E payload \in Payloads :
        LET key == IF KeyTruthy(payload.idempotency_key)
                   THEN payload.idempotency_key ELSE UuidKeys[produced + 1]
        IN  request' = [pc |-> "check_idempotency",
                        payload |-> Put(payload, "idempotency_key", key),
                        notification_id |-> NoId, response |-> "none", trace |-> <<>>]
    /\ produced' = produced + 1
    /\ UNCHANGED <<breaker, now, cbLog, queueVars, records, guard, units, last, faults,
                   crashes, templateVars>>

\* line 574: the cache has answered
RequestCheck ==
    LET key == request.payload.idempotency_key
        found == CheckIdempotency(guard, key, now)
    IN  /\ request.pc = "check_idempotency"
        /\ Blocking = {}
        /\ UNCHANGED <<breaker, now, cbLog, queueVars, records, guard, units, last,
                       produced, crashes, templateVars>>
        /\ \E outcome \in CacheOutcomes :
            /\ faults' = Remaining("cache", outcome)
            /\ IF outcome = "raise"
               THEN Respond([request EXCEPT !.trace = Append(@, Checked(key, FALSE))],
                            "error")
               ELSE request' =
                        [request EXCEPT !.trace = Append(@, Checked(key, found)),
                                        !.pc = IF found THEN "lookup" ELSE "create"]

\* lines 575-590: the key is in the guard, the record is looked up for the answer
RequestLookup ==
    LET key == request.payload.idempotency_key
    IN  /\ request.pc = "lookup"
        /\ Blocking = {}
        /\ UNCHANGED <<breaker, now, cbLog, queueVars, records, guard, units, last,
                       produced, crashes, templateVars>>
        /\ \E outcome \in StoreOutcomes :
            /\ faults' = Remaining("store", outcome)
            /\ Respond([request EXCEPT !.trace = Append(@, LookedUp(key, outcome = "ok"))],
                       IF outcome = "raise" THEN "error" ELSE "already processed")

\* lines 592-595: the record is inserted with status 'pending'
RequestCreate ==
    LET notification_data ==
            Put(Put(request.payload, "status", "pending"), "retry_count", 0)
        c == CreateNotification(records, notification_data)
    IN  /\ request.pc = "create"
        /\ Blocking = {}
        /\ UNCHANGED <<breaker, now, cbLog, queueVars, guard, units, last, produced,
                       crashes, templateVars>>
        /\ \E outcome \in StoreOutcomes :
            /\ faults' = Remaining("store", outcome)
            /\ IF outcome = "raise" \/ ~c.ok
               THEN /\ UNCHANGED records
                    /\ Respond([request EXCEPT
                                  !.trace = Append(@, Created("pending", FALSE, NoId))],
                               "error")
               ELSE /\ records' = c.rows
                    /\ request' =
                        [request EXCEPT !.trace = Append(@, Created("pending", TRUE, c.id)),
                                        !.notification_id = c.id,
                                        !.pc = "publish"]

\* lines 597-617: the message is published on the primary routing key
RequestPublish ==
    LET message == QueuedMessage(request.payload, request.notification_id, now)
    IN  /\ request.pc = "publish"
        /\ Blocking = {}
        /\ UNCHANGED <<breaker, now, cbLog, records, guard, units, last, produced,
                       crashes, templateVars>>
        /\ \E outcome \in BrokerOutcomes :
            /\ faults' = Remaining("broker", outcome)
            /\ LET r == [request EXCEPT
                            !.trace = Append(@, Published(PUSH, message, outcome = "ok"))]
               IN  IF outcome = "raise"
                   THEN /\ UNCHANGED queueVars
                        /\ Respond(r, "error")
                   ELSE /\ Publish(PUSH, NewMessage(message, <<>>))
                        /\ Respond(r, "queued")

Ingest ==
    \/ ReceiveRequest
    \/ RequestCheck
    \/ RequestLookup
    \/ RequestCreate
    \/ RequestPublish

\* time passes: long enough for the gateway breaker's cooldown to end
TimePasses ==
    /\ now < MaxJumps * (GatewayTimeout + 1)
    /\ now' = now + GatewayTimeout + 1
    /\ UNCHANGED <<breaker, cbLog, consumerVars>>

(***************************************************************************)
(* Template service: create_new_template_version (templates.py 196-226).   *)
(* The endpoint is a plain function, which the framework runs on a worker  *)
(* thread with a database session of its own (db.py 26-29): the SELECT of  *)
(* template.versions and the INSERT of the commit are two statements, and  *)
(* other requests run between them.  A row of `versions` has `stale` as    *)
(* history: the table had changed between the SELECT and the INSERT.       *)
(***************************************************************************)
TemplateIds == {"t1", "t2"}    \* the templates in table template

IdleSession == [pc |-> "idle", template_id |-> "none", max_version |-> 0, seen |-> <<>>]

\* [v.version for v in template.versions]
VersionsOf(rows, template_id) ==
    {rows[k].version : k \in {j \in DOMAIN rows : rows[j].template_id = template_id}}

\* max(..., default=0)
MaxVersion(numbers) ==
    IF numbers = {} THEN 0 ELSE CHOOSE n \in numbers : \A m \in numbers : m <= n

\* lines 207-211: the template is loaded and the highest version number of
\* its versions is computed
ReadVersions(s) ==
    /\ sessions[s].pc = "idle"
    /\ Len(versions) + Cardinality({w \in DOMAIN sessions : sessions[w].pc # "idle"})
            < MaxVersions
    /\ \E template_id \in TemplateIds :
        sessions' = [sessions EXCEPT ![s] =
            [pc |-> "commit", template_id |-> template_id,
             max_version |-> MaxVersion(VersionsOf(versions, template_id)),
             seen |-> versions]]
    /\ UNCHANGED <<cbVars, consumerVarsButRest, request, versions>>

\* lines 212-226: the new version is inserted with version max_version + 1
CommitVersion(s) ==
    /\ sessions[s].pc = "commit"
    /\ versions' = Append(versions,
            [template_id |-> sessions[s].template_id,
             version |-> sessions[s].max_version + 1,
             stale |-> versions # sessions[s].seen])
    /\ sessions' = [sessions EXCEPT ![s] = IdleSession]
    /\ UNCHANGED <<cbVars, consumerVarsButRest, request>>

create_new_template_version(s) ==
    \/ ReadVersions(s)
    \/ CommitVersion(s)

InitTemplates ==
    /\ versions = <<>>
    /\ sessions = [s \in 1..Workers |-> IdleSession]

(***************************************************************************)
(* The service with its collaborators answering: lifespan (main.py         *)
(* 502-524) builds the managers and starts the consumer.                   *)
(***************************************************************************)
InitConsumer ==
    /\ push_queue = <<>>
    /\ retry_queue = <<>>
    /\ failed_queue = <<>>
    /\ records = <<>>
    /\ guard = EmptyDict
    /\ units = [i \in 1..Units |-> IdleUnit]
    /\ last = NoExecution
    /\ produced = 0
    /\ crashes = 0
    /\ request = NoRequest
    /\ InitTemplates

Init ==
    /\ breaker = NewBreaker(GatewayThreshold, GatewayTimeout)
    /\ now = 0
    /\ cbLog = [calls |-> 0, lead_fails |-> 0, last |-> NoCall]
    /\ InitConsumer
    /\ faults = NoFaults

Step(i) ==
    \/ Receive(i)
    \/ CheckDuplicate(i)
    \/ CreateFailed(i)
    \/ UpdateFailed(i)
    \/ PublishInvalid(i)
    \/ CreateProcessing(i)
    \/ UpdateProcessing(i)
    \/ SendPush(i)
    \/ UpdateSent(i)
    \/ MarkDone(i)
    \/ UpdateOutcome(i)
    \/ Sleep(i)
    \/ PublishRetry(i)
    \/ PublishDeadLetter(i)

Next ==
    \/ Produce
    \/ send_notification
    \/ TimePasses
    \/ \E i \in 1..Units : Step(i)

Spec == Init /\ [][Next]_vars

(***************************************************************************)
(* The service with a collaborator that may be unavailable: the store, the *)
(* cache or the broker answers or raises, for up to MaxRaises of the calls *)
(* made to it.  Producers may publish malformed messages.  One delivery is *)
(* in flight at a time: the consumer runs as unit 1.                       *)
(***************************************************************************)
FaultSets ==
    {f \in [Collaborators -> {0, MaxRaises}] :
        Cardinality({c \in Collaborators : f[c] > 0}) <= 1}

InitFaults ==
    /\ breaker = NewBreaker(GatewayThreshold, GatewayTimeout)
    /\ now = 0
    /\ cbLog = [calls |-> 0, lead_fails |-> 0, last |-> NoCall]
    /\ InitConsumer
    /\ faults \in FaultSets

NextFaults ==
    \/ Produce
    \/ send_notification
    \/ ProduceMalformed
    \/ Step(1)

SpecFaults == InitFaults /\ [][NextFaults]_vars

(***************************************************************************)
(* The same with the requests handled await by await, so that the steps of *)
(* process_message fall between the calls of a request; other producers    *)
(* publish well-formed messages that name no record.                       *)
(***************************************************************************)
NextIngest ==
    \/ Produce
    \/ Ingest
    \/ Step(1)

SpecIngest == InitFaults /\ [][NextIngest]_vars

(***************************************************************************)
(* The service with every collaborator answering and the consumer never    *)
(* stalled: the broker hands over a queued message whenever the consumer   *)
(* is free (start_consuming, lines 487-492), and every awaited call and    *)
(* the backoff sleep return, so a step of process_message that can be      *)
(* taken is eventually taken.  Producers may publish malformed messages.   *)
(***************************************************************************)
NextFair ==
    \/ Produce
    \/ send_notification
    \/ ProduceMalformed
    \/ Step(1)

SpecFair == Init /\ [][NextFair]_vars /\ WF_vars(Step(1))

(***************************************************************************)
(* A burst of plain delivery requests while the gateway may be down for    *)
(* long enough to open the breaker: every message is valid, has no         *)
(* idempotency key and names no record, so of the steps of process_message *)
(* only those below are ever taken.                                        *)
(***************************************************************************)
ProduceValid ==
    /\ produced < MaxBurst
    /\ Publish(PUSH, NewMessage([title |-> "Hello", token |-> MinTokenLen], <<>>))
    /\ produced' = produced + 1
    /\ UNCHANGED <<breaker, now, cbLog, records, guard, units, last, faults, crashes, restVars>>

Deliver(i) ==
    \/ Receive(i)
    \/ CreateProcessing(i)
    \/ UpdateProcessing(i)
    \/ SendPush(i)
    \/ UpdateSent(i)
    \/ UpdateOutcome(i)
    \/ Sleep(i)
    \/ PublishRetry(i)
    \/ PublishDeadLetter(i)

NextOutage ==
    \/ ProduceValid
    \/ TimePasses
    \/ Deliver(1)

SpecOutage == Init /\ [][NextOutage]_vars

(***************************************************************************)
(* Several messages that carry the same idempotency key are in flight at   *)
(* once: the broker hands over up to prefetch_count unacknowledged         *)
(* messages (line 149), here up to Racers.  The messages are valid and     *)
(* name no record, so only the steps below are ever taken.                 *)
(***************************************************************************)
ProduceSameKey ==
    /\ produced < MaxBurst
    /\ Publish(PUSH, NewMessage([title |-> "Hello", token |-> MinTokenLen,
                                  idempotency_key |-> "k1"], <<>>))
    /\ produced' = produced + 1
    /\ UNCHANGED <<breaker, now, cbLog, records, guard, units, last, faults, crashes, restVars>>

DeliverKeyed(i) ==
    \/ Receive(i)
    \/ CheckDuplicate(i)
    \/ CreateProcessing(i)
    \/ UpdateProcessing(i)
    \/ SendPush(i)
    \/ UpdateSent(i)
    \/ MarkDone(i)
    \/ UpdateOutcome(i)
    \/ Sleep(i)
    \/ PublishRetry(i)
    \/ PublishDeadLetter(i)

InitRace ==
    /\ breaker = NewBreaker(GatewayThreshold, GatewayTimeout)
    /\ now = 0
    /\ cbLog = [calls |-> 0, lead_fails |-> 0, last |-> NoCall]
    /\ push_queue = <<>>
    /\ retry_queue = <<>>
    /\ failed_queue = <<>>
    /\ records = <<>>
    /\ guard = EmptyDict
    /\ units = [i \in 1..Racers |-> IdleUnit]
    /\ last = NoExecution
    /\ produced = 0
    /\ crashes = 0
    /\ request = NoRequest
    /\ InitTemplates
    /\ faults = NoFaults

NextRace ==
    \/ ProduceSameKey
    \/ \E i \in 1..Racers : DeliverKeyed(i)

SpecRace == InitRace /\ [][NextRace]_vars

(***************************************************************************)
(* The same with every published body a JSON object.                       *)
(***************************************************************************)
NextParsed ==
    \/ Produce
    \/ send_notification
    \/ ProduceInvalid
    \/ Step(1)

SpecParsed == Init /\ [][NextParsed]_vars /\ WF_vars(Step(1))

(***************************************************************************)
(* A backlog of plain delivery requests while the store is slow: the       *)
(* broker hands messages to the consumers of both queues (lines 491, 492)  *)
(* as far as prefetch_count (line 149) lets it.  Unit 1 takes the first    *)
(* message and runs process_message to its end; the other units have       *)
(* received their message and wait at their first await.  The broker's     *)
(* choice of a task is immaterial, so a delivery goes to the lowest idle   *)
(* unit.                                                                   *)
(***************************************************************************)
ProduceBacklog ==
    /\ produced < MaxBacklog
    /\ Publish(PUSH, NewMessage([title |-> "Hello", token |-> MinTokenLen], <<>>))
    /\ produced' = produced + 1
    /\ UNCHANGED <<breaker, now, cbLog, records, guard, units, last, faults, crashes, restVars>>

DeliverFirst(i) ==
    \/ (last = NoExecution /\ Receive(i))
    \/ CreateProcessing(i)
    \/ SendPush(i)
    \/ UpdateSent(i)
    \/ UpdateOutcome(i)
    \/ Sleep(i)
    \/ PublishRetry(i)

Hold(i) ==
    /\ \A j \in 2..(i - 1) : units[j].pc # "idle"
    /\ Receive(i)

InitBacklog ==
    /\ breaker = NewBreaker(GatewayThreshold, GatewayTimeout)
    /\ now = 0
    /\ cbLog = [calls |-> 0, lead_fails |-> 0, last |-> NoCall]
    /\ push_queue = <<>>
    /\ retry_queue = <<>>
    /\ failed_queue = <<>>
    /\ records = <<>>
    /\ guard = EmptyDict
    /\ units = [i \in 1..Tasks |-> IdleUnit]
    /\ last = NoExecution
    /\ produced = 0
    /\ crashes = 0
    /\ request = NoRequest
    /\ InitTemplates
    /\ faults = NoFaults

NextBacklog ==
    \/ ProduceBacklog
    \/ DeliverFirst(1)
    \/ \E i \in 2..Tasks : Hold(i)

SpecBacklog == InitBacklog /\ [][NextBacklog]_vars

(***************************************************************************)
(* publish_message by itself (main.py 191-202): callers publish dicts with *)
(* and without an idempotency key on the three routing keys.  `last` is    *)
(* history: the calls made, in order.                                      *)
(***************************************************************************)
RoutingKeys == {PUSH, RETRY, DEAD}

\* message.get("idempotency_key") is a key, the empty string, None, or the
\* dict has no such entry
PublishInputs ==
    { [title |-> "Hello", token |-> MinTokenLen] } \cup
    { [title |-> "Hello", token |-> MinTokenLen, idempotency_key |-> k] :
        k \in Keys \cup {"", NoKey} }

\* the value of the n-th call of str(uuid.uuid4())
Uuid4(n) == UuidKeys[n]

publish_message ==
    /\ produced < MaxPublishes
    /\ UNCHANGED <<breaker, now, cbLog, records, guard, units, faults, crashes, restVars>>
    /\ \E routing_key \in RoutingKeys, message \in PublishInputs :
        /\ Publish(routing_key, MessageOf(message, <<>>, Uuid4(produced + 1)))
        /\ last' = Append(last, [routing_key |-> routing_key, message |-> message])
    /\ produced' = produced + 1

InitPublish ==
    /\ breaker = NewBreaker(GatewayThreshold, GatewayTimeout)
    /\ now = 0
    /\ cbLog = [calls |-> 0, lead_fails |-> 0, last |-> NoCall]
    /\ push_queue = <<>>
    /\ retry_queue = <<>>
    /\ failed_queue = <<>>
    /\ records = <<>>
    /\ guard = EmptyDict
    /\ units = [i \in 1..Units |-> IdleUnit]
    /\ last = <<>>
    /\ produced = 0
    /\ crashes = 0
    /\ request = NoRequest
    /\ InitTemplates
    /\ faults = NoFaults

NextPublish == publish_message

SpecPublish == InitPublish /\ [][NextPublish]_vars

(***************************************************************************)
(* The template service by itself: requests that create versions of the   *)
(* templates, on Workers threads.                                          *)
(***************************************************************************)
NextTemplates == \E s \in 1..Workers : create_new_template_version(s)

SpecTemplates == Init /\ [][NextTemplates]_vars

(***************************************************************************)
(* The process dies and is started again.  The deliveries it had not yet   *)
(* acknowledged or rejected (no_ack is off: lines 491-492) go back to the   *)
(* head of their queues; the coroutines are gone; lifespan builds a new    *)
(* PushServiceManager, hence a new breaker (line 66); the queues, the      *)
(* table and the cache are outside the process and keep their content.     *)
(***************************************************************************)
Crash ==
    /\ crashes < MaxCrashes
    /\ crashes' = crashes + 1
    /\ push_queue' = Unacked(PUSH) \o push_queue
    /\ retry_queue' = Unacked(RETRY) \o retry_queue
    /\ units' = [i \in 1..Units |-> IdleUnit]
    /\ breaker' = NewBreaker(GatewayThreshold, GatewayTimeout)
    /\ request' = IF request.pc = "idle" THEN request ELSE NoRequest
    /\ UNCHANGED <<now, cbLog, failed_queue, records, guard, last, produced, faults,
                   templateVars>>

\* one delivery is in flight at a time: the consumer runs as unit 1
NextCrash ==
    \/ Produce
    \/ send_notification
    \/ Step(1)
    \/ Crash

SpecCrash == Init /\ [][NextCrash]_vars

(***************************************************************************)
(* The breaker driven directly by a caller, as tests/test_circuit_breaker  *)
(* does: any sequence of succeeding and failing operations, with the clock *)
(* advancing between calls.                                                *)
(***************************************************************************)
InitCB ==
    /\ \E th \in 1..MaxThreshold, to \in 0..MaxTimeout : breaker = NewBreaker(th, to)
    /\ now = 0
    /\ cbLog = [calls |-> 0, lead_fails |-> 0, last |-> NoCall]
    /\ InitConsumer
    /\ faults = NoFaults

\* breaker.call(func)
BreakerCall ==
    /\ cbLog.calls < MaxCalls
    /\ \E op \in Ops :
        /\ now + op.duration <= MaxNow
        /\ LET r == Call(breaker, now, op)
           IN  /\ breaker' = r.cb
               /\ now' = r.now
               /\ cbLog' =
                    [calls |-> cbLog.calls + 1,
                     lead_fails |->
                        IF cbLog.lead_fails = cbLog.calls /\ r.invoked /\ ~op.ok
                        THEN cbLog.lead_fails + 1 ELSE cbLog.lead_fails,
                     last |->
                        [before |-> breaker, entered_at |-> now,
                         op |-> op,
                         invoked |-> r.invoked, at_invoke |-> r.at_invoke,
                         returned |-> r.returned, raised |-> r.raised,
                         after |-> r.cb, left_at |-> r.now]]
    /\ UNCHANGED consumerVars

\* time passes between calls
Tick ==
    /\ now < MaxNow
    /\ now' = now + 1
    /\ UNCHANGED <<breaker, cbLog, consumerVars>>

NextCB == BreakerCall \/ Tick

SpecCB == InitCB /\ [][NextCB]_vars

(***************************************************************************)
(* Properties of process_message (checked under Spec, where the store, the *)
(* cache and the broker answer every call).  They are stated about `last`, *)
(* the execution that finished last: its trace, and the row, the queue     *)
(* tails and the guard as they were in the state it finished in.           *)
(***************************************************************************)
EventsOf(trace, name) == {k \in DOMAIN trace : trace[k].ev = name}

\* the messages a queue holds
Held(queue) == {queue[k] : k \in DOMAIN queue}

PublishesTo(trace, routing_key) ==
    {k \in EventsOf(trace, "publish_message") : trace[k].routing_key = routing_key}

WritesOf(trace, status) ==
    {k \in EventsOf(trace, "update_notification_status")
            \cup EventsOf(trace, "create_notification") : trace[k].status = status}

\* the gateway calls of the execution that raised (the gateway failed, or the
\* breaker refused the call)
FailedSends(trace) ==
    {k \in EventsOf(trace, "send_push_notification") : trace[k].raised # "none"}

\* the message of the execution as it was dequeued
Dequeue == last.msg.body.data
Attempt == Get(Dequeue, "retry_count", 0)

\* the last execution ran to its acknowledgement on a payload that parses
\* and whose key, if it has one, was not found in the guard
RanPastGuard ==
    /\ last.pc = "ack"
    /\ Parses(last.msg)
    /\ PayloadValid(Dequeue)
    /\ \A k \in EventsOf(last.trace, "check_idempotency") : ~last.trace[k].found

C2_DuplicateOnlyAcknowledged ==
    [][\A i \in 1..Units :
        (/\ units[i].pc = "check_idempotency"
         /\ units'[i] # units[i]
         /\ IdempotencyKeyOf(units[i].data) \in DOMAIN guard
         /\ now < guard[IdempotencyKeyOf(units[i].data)])
        => /\ units'[i] = IdleUnit
           /\ last'.pc = "ack"
           /\ last'.msg = units[i].msg
           /\ Len(last'.trace) = 3
           /\ last'.trace[1].ev = "dequeue"
           /\ last'.trace[2] = Checked(IdempotencyKeyOf(units[i].data), TRUE)
           /\ last'.trace[3] = Acked
           /\ UNCHANGED <<records, push_queue, retry_queue, failed_queue, guard, breaker>>
      ]_vars

C2_Witness ==
    /\ last.pc = "ack"
    /\ Len(last.trace) = 3
    /\ last.trace[2].ev = "check_idempotency"
    /\ last.trace[2].found
    /\ IdempotencyKeyOf(Dequeue) \in DOMAIN guard

ChainOfFailures(m) ==
    /\ m.lineage # <<>>
    /\ m.lineage[1][1].attempt = 0
    /\ \A h \in DOMAIN m.lineage : FailedSends(m.lineage[h]) # {}

\* hop h of the chain retried: its record was written 'retrying' and its one
\* publish went to push.queue.retry with the next attempt
HopRetried(t, nid) ==
    /\ Cardinality(EventsOf(t, "publish_message")) = 1
    /\ Cardinality(PublishesTo(t, RETRY)) = 1
    /\ LastOf(t).message["retry_count"] = t[1].attempt + 1
    /\ LastOf(t).message["notification_id"] = nid
    /\ WritesOf(t, "failed") = {}
    /\ nid # NoId => Cardinality(WritesOf(t, "retrying")) = 1

\* hop h of the chain gave up: its record was written 'failed' and its one
\* publish went to failed.queue with the record id and the error of its send
HopDeadLettered(t, nid) ==
    /\ Cardinality(EventsOf(t, "publish_message")) = 1
    /\ Cardinality(PublishesTo(t, DEAD)) = 1
    /\ "notification_id" \in DOMAIN LastOf(t).message
    /\ LastOf(t).message["notification_id"] = nid
    /\ LastOf(t).message["error"] = t[CHOOSE k \in FailedSends(t) : TRUE].raised
    /\ WritesOf(t, "retrying") = {}
    /\ nid # NoId => Cardinality(WritesOf(t, "failed")) = 1

\* the statuses 'retrying' and 'failed' among those a row has had, in order
Outcomes(id) ==
    SelectSeq(records[id].written, LAMBDA st : st \in {"retrying", "failed"})

\* the gateway operations run by the executions of a chain
GatewayAttempts(lineage) ==
    {<<h, k>> \in (DOMAIN lineage) \X (1..12) :
        /\ k \in EventsOf(lineage[h], "send_push_notification")
        /\ lineage[h][k].invoked}

C11_BackoffDelay ==
    (last.pc = "ack" /\ Parses(last.msg)) =>
        LET t == last.trace
            sleeps == EventsOf(t, "sleep")
        IN  /\ PublishesTo(t, RETRY) # {} =>
                /\ Attempt \in 0..(max_retries - 1)
                /\ Cardinality(sleeps) = 1
                /\ \A k \in sleeps :
                    /\ \A p \in PublishesTo(t, RETRY) : k < p
                    /\ t[k].delay = (2 ^ Attempt) * 5
                    /\ t[k].delay = CASE Attempt = 0 -> 5
                                       [] Attempt = 1 -> 10
                                       [] Attempt = 2 -> 20
            /\ PublishesTo(t, RETRY) = {} => sleeps = {}
            /\ PublishesTo(t, DEAD) # {} => sleeps = {}

C11_Witness ==
    /\ last.pc = "ack"
    /\ Attempt = 2
    /\ PublishesTo(last.trace, RETRY) # {}
    /\ \E k \in EventsOf(last.trace, "sleep") : last.trace[k].delay = 20

(***************************************************************************)
(* Properties of process_message when a collaborator may raise and         *)
(* messages may be malformed (checked under SpecFaults).                   *)
(***************************************************************************)
\* the payload is a JSON object whose token is missing or shorter than 10
\* characters
TokenMissingOrShort(data) ==
    Truthy(data) /\ ("token" \notin DOMAIN data \/ data["token"] < 10)

\* C13: no message whose token is missing or shorter than 10 characters is
\* ever on push.queue.retry, and an acknowledged execution on such a message
\* that was not skipped as a duplicate has published nothing on the retry
\* key and exactly one message on the dead-letter key.
C13_InvalidTokenNeverRetried ==
    /\ \A m \in Held(retry_queue) : ~TokenMissingOrShort(m.body.data)
    /\ (/\ last.pc = "ack"
        /\ Parses(last.msg)
        /\ TokenMissingOrShort(last.msg.body.data)
        /\ \A k \in EventsOf(last.trace, "check_idempotency") : ~last.trace[k].found)
       => /\ PublishesTo(last.trace, RETRY) = {}
          /\ Cardinality(PublishesTo(last.trace, DEAD)) = 1

\* the writes of 'processing' (the insert of lines 430-439 or the update of
\* line 441) of the execution on which the store raised
FailedWritesBeforeSend(trace) == {k \in WritesOf(trace, "processing") : ~trace[k].ok}

\* no collaborator raised in the execution outside the steps `but`
NothingElseRaised(trace, but) ==
    \A k \in DOMAIN trace \ but : "ok" \in DOMAIN trace[k] => trace[k].ok

\* the execution was routed by the result of its gateway call: nothing
\* published when the call returned, otherwise one retry message below
\* max_retries and one dead letter at max_retries
RoutedByGateway(trace, attempt) ==
    LET sends == EventsOf(trace, "send_push_notification")
    IN /\ Cardinality(sends) = 1
       /\ \A k \in sends :
            IF trace[k].raised = "none"
            THEN PublishesTo(trace, RETRY) = {} /\ PublishesTo(trace, DEAD) = {}
            ELSE IF attempt < max_retries
                 THEN /\ Cardinality(PublishesTo(trace, RETRY)) = 1
                      /\ PublishesTo(trace, DEAD) = {}
                 ELSE /\ PublishesTo(trace, RETRY) = {}
                      /\ Cardinality(PublishesTo(trace, DEAD)) = 1

\* C15 (checked under SpecFaults): when the store raises on the write that
\* precedes the delivery attempt (the insert of the record, or the update
\* of an existing record to 'processing'), the execution still calls the
\* gateway, once, and is routed by the gateway's result as if the write
\* had succeeded.
C15_StoreFailureBeforeSendSwallowed ==
    (/\ FailedWritesBeforeSend(last.trace) # {}
     /\ NothingElseRaised(last.trace, FailedWritesBeforeSend(last.trace)))
        => RoutedByGateway(last.trace, Attempt)

\* the gateway calls of the execution that returned
SucceededSends(trace) ==
    {k \in EventsOf(trace, "send_push_notification") : trace[k].raised = "none"}

\* C16 (checked under SpecFaults): an execution whose gateway call returned
\* ends acknowledged with nothing published on push.queue.retry or
\* failed.queue and with no write of 'retrying' or 'failed', whatever the
\* update to 'sent' and set_idempotency do afterwards; and no message
\* waiting for a retry descends from an execution whose gateway call
\* returned, so the gateway is not called again for that notification.
C16_SuccessIsFinal ==
    /\ (last.pc = "ack" /\ SucceededSends(last.trace) # {})
         => /\ PublishesTo(last.trace, RETRY) = {}
            /\ PublishesTo(last.trace, DEAD) = {}
            /\ WritesOf(last.trace, "retrying") = {}
            /\ WritesOf(last.trace, "failed") = {}
    /\ \A m \in Held(retry_queue) :
         \A h \in DOMAIN m.lineage : SucceededSends(m.lineage[h]) = {}

\* what an execution did with its message, as the set of the outcomes that
\* happened in it
OutcomesOf(trace) ==
    (IF \E k \in EventsOf(trace, "check_idempotency") : trace[k].found
     THEN {"duplicate"} ELSE {})
    \cup (IF SucceededSends(trace) # {} THEN {"delivered"} ELSE {})
    \cup (IF PublishesTo(trace, RETRY) # {} THEN {"retried"} ELSE {})
    \cup (IF PublishesTo(trace, DEAD) # {} THEN {"dead-lettered"} ELSE {})

\* the steps of the execution on the cache and on the broker all answered
OnlyStoreRaised(trace) ==
    \A k \in EventsOf(trace, "set_idempotency") \cup EventsOf(trace, "publish_message") :
        trace[k].ok

\* C17 (checked under SpecFaults): whatever the record store does, an
\* acknowledged execution did exactly one of: skip the message as a
\* duplicate, get a result from the gateway, publish one message on
\* push.queue.retry, publish one message on failed.queue.
C17_ExactlyOneOutcome ==
    (last.pc = "ack" /\ OnlyStoreRaised(last.trace))
        => /\ Cardinality(OutcomesOf(last.trace)) = 1
           /\ Cardinality(PublishesTo(last.trace, RETRY)) <= 1
           /\ Cardinality(PublishesTo(last.trace, DEAD)) <= 1

\* C26 (checked under SpecFaults): no execution of process_message ends
\* with an exception leaving it (which message.process() answers by
\* rejecting the delivery): every execution ends acknowledged, whichever
\* collaborator raised.
C26_NoExceptionEscapes ==
    /\ last.pc # "reject"
    /\ \A t \in {units[i].trace : i \in 1..Units} \cup {last.trace} :
         EventsOf(t, "reject") = {}

\* m descends from a message whose body json.loads rejected
FromUnparseable(m) == m.lineage # <<>> /\ ~m.lineage[1][1].parsed

\* C14 (checked under SpecFair): once process_message has dequeued a message
\* whose body does not parse, a message that descends from it eventually
\* is on failed.queue.
C14_UnparseableDeadLettered ==
    (\E i \in 1..Units : units[i].pc # "idle" /\ ~Parses(units[i].msg))
        ~> (\E m \in Held(failed_queue) : FromUnparseable(m))

(***************************************************************************)
(* The statuses of a record, in the order they were written.               *)
(***************************************************************************)
Terminal == {"sent", "failed"}

\* C19 (checked under SpecFaults): a record that has been written 'sent'
\* or 'failed' is never written with a different status afterwards.
C19_TerminalStatusAbsorbing ==
    \A id \in DOMAIN records :
        LET w == records[id].written
        IN  \A k \in 1..(Len(w) - 1) : w[k] \in Terminal => w[k + 1] = w[k]

\* the statuses process_message writes
ConsumerStatuses == {"processing", "sent", "retrying", "failed"}

\* C20 (checked under SpecFaults): every insert and update of an execution
\* of process_message writes 'processing', 'sent', 'retrying' or 'failed',
\* and 'pending' occurs in the history of a record only as the status it
\* was created with.
C20_PendingNeverRevisited ==
    /\ \A i \in 1..Units : \A k \in DOMAIN units[i].trace :
         units[i].trace[k].ev \in {"create_notification", "update_notification_status"}
            => units[i].trace[k].status \in ConsumerStatuses
    /\ \A id \in DOMAIN records :
         \A k \in 2..Len(records[id].written) : records[id].written[k] # "pending"

C20_Witness ==
    \E id \in DOMAIN records :
        /\ records[id].written[1] = "pending"
        /\ Len(records[id].written) >= 3
        /\ records[id].status = "retrying"

(***************************************************************************)
(* The retry count (checked under SpecFaults; every producer publishes     *)
(* without retry_count, which process_message reads as attempt 0).         *)
(***************************************************************************)
\* the retry_count a published dict carries, 0 when it has none
AttemptOf(data) == Get(data, "retry_count", 0)

\* C21: no record has a retry_count above max_retries, and no message on
\* push.queue, push.queue.retry or failed.queue, and no publish of a
\* running or finished execution, carries a retry_count above max_retries.
C21_RetryCountBounded ==
    /\ \A id \in DOMAIN records : records[id].retry_count \in 0..max_retries
    /\ \A m \in Held(push_queue) \cup Held(retry_queue) \cup Held(failed_queue) :
         Parses(m) => AttemptOf(m.body.data) \in 0..max_retries
    /\ \A t \in {units[i].trace : i \in 1..Units} \cup {last.trace} :
         \A k \in EventsOf(t, "publish_message") :
            AttemptOf(t[k].message) \in 0..max_retries

C21_Witness ==
    /\ \E id \in DOMAIN records : records[id].retry_count = max_retries
    /\ \E m \in Held(failed_queue) :
         /\ AttemptOf(m.body.data) = max_retries
         /\ Len(m.lineage) = max_retries + 1

(***************************************************************************)
(* The idempotency guard.                                                  *)
(***************************************************************************)
\* C22 (checked under Spec): an entry that set_idempotency has written
\* stays in the guard with its expiry, which is IdempotencyTtl after the
\* write; and an execution that is about to ask the guard for a key whose
\* entry has not expired is answered "found" and ends in that step,
\* acknowledged, having done nothing but the dequeue and the check: no
\* gateway call, no write, no publish.
C22_MarkedKeyIsFound ==
    [][ /\ \A key \in DOMAIN guard :
            key \in DOMAIN guard' /\ guard'[key] >= guard[key]
        /\ \A key \in DOMAIN guard' :
            (key \notin DOMAIN guard \/ guard'[key] # guard[key])
                => guard'[key] = now + IdempotencyTtl
        /\ \A i \in 1..Units :
            (/\ units[i].pc = "check_idempotency"
             /\ units'[i] # units[i]
             /\ CheckIdempotency(guard, IdempotencyKeyOf(units[i].data), now))
                => /\ units'[i] = IdleUnit
                   /\ last'.pc = "ack"
                   /\ last'.msg = units[i].msg
                   /\ Len(last'.trace) = 3
                   /\ last'.trace[2] = Checked(IdempotencyKeyOf(units[i].data), TRUE)
                   /\ EventsOf(last'.trace, "send_push_notification") = {}
                   /\ UNCHANGED <<breaker, cbLog, queueVars, records, guard>>
      ]_vars

\* a retry hop found its key marked by another message with the same key
C22_Witness ==
    /\ last.pc = "ack"
    /\ last.trace[1].queue = RETRY
    /\ last.trace[2] = Checked("k1", TRUE)
    /\ last.msg.lineage # <<>>
    /\ FailedSends(last.msg.lineage[1]) # {}
    /\ CheckIdempotency(guard, "k1", now)

\* the executions in flight, not yet acknowledged, on a message with `key`
\* whose gateway call has returned
DeliveredInFlight(key) ==
    {i \in DOMAIN units :
        /\ units[i].pc # "idle"
        /\ IdempotencyKeyOf(units[i].data) = key
        /\ SucceededSends(units[i].trace) # {}}

\* every message published so far has been handled to the end, and none
\* was dead-lettered or is waiting for a retry
AllHandled ==
    /\ produced > 0
    /\ push_queue = <<>> /\ retry_queue = <<>> /\ failed_queue = <<>>
    /\ \A i \in DOMAIN units : units[i].pc = "idle"

\* C23 (checked under SpecRace): of the messages with one idempotency key
\* that are processed at the same time, at most two get a result from the
\* gateway (one delivery and one duplicate); and when all of them have been
\* handled without a failed attempt the key has been delivered, which is
\* when the guard holds it.
C23_AtMostOneExtraDelivery ==
    /\ Cardinality(DeliveredInFlight("k1")) <= 2
    /\ (AllHandled /\ breaker.failures = 0) => CheckIdempotency(guard, "k1", now)

\* the executions that have asked the guard for their key, were answered
\* "not found", and have not yet come back from the gateway call
BetweenCheckAndSend ==
    {i \in DOMAIN units :
        /\ units[i].pc \in {"create_processing", "update_processing", "send"}
        /\ IdempotencyKeyOf(units[i].data) # NoKey}

\* C24 (checked under Spec): an entry enters the guard only by the
\* set_idempotency of an execution whose gateway call for that key has
\* returned; and while an execution is between its guard check and the end
\* of its gateway call, the guard answers "found" for its key.
C24_GuardMeansDeliveredOrInFlight ==
    /\ [][ \A key \in DOMAIN guard' :
            (key \notin DOMAIN guard \/ guard'[key] # guard[key])
                => \E i \in DOMAIN units :
                    /\ units[i].pc = "set_idempotency"
                    /\ IdempotencyKeyOf(units[i].data) = key
                    /\ SucceededSends(units[i].trace) # {}
                    /\ units'[i] = IdleUnit ]_vars
    /\ [](\A i \in BetweenCheckAndSend :
            CheckIdempotency(guard, IdempotencyKeyOf(units[i].data), now))

(***************************************************************************)
(* The record of a chain of executions (checked under SpecFaults).         *)
(***************************************************************************)
\* the inserts of an execution that the store accepted
Inserts(t) == {k \in EventsOf(t, "create_notification") : t[k].ok}

\* the record id an execution knows: the one its message carried, else the
\* one its insert returned
KnownId(t) ==
    IF t[1].notification_id # NoId THEN t[1].notification_id
    ELSE IF Inserts(t) # {} THEN t[CHOOSE k \in Inserts(t) : TRUE].id
    ELSE NoId

\* the chains of executions the state remembers: behind every queued
\* message, and behind every execution in flight or just finished
Chains ==
    {m.lineage : m \in Held(retry_queue) \cup Held(failed_queue)}
    \cup {u.msg.lineage \o <<u.trace>> : u \in {units[i] : i \in 1..Units} \cup {last}}

OneRecordPerChain(chain) ==
    /\ Cardinality({<<h, k>> \in (DOMAIN chain) \X (1..12) : k \in Inserts(chain[h])}) <= 1
    /\ \A h \in DOMAIN chain :
        LET t == chain[h]
        IN  t # <<>> =>
            /\ \A k \in EventsOf(t, "create_notification") : t[1].notification_id = NoId
            /\ \A k \in EventsOf(t, "update_notification_status") :
                    /\ t[1].notification_id # NoId \/ Inserts(t) # {}
                    /\ t[k].id = KnownId(t)
            /\ \A k \in WritesOf(t, "processing") :
                    t[k].ev = "update_notification_status" <=> t[1].notification_id # NoId
            /\ \A k \in EventsOf(t, "publish_message") :
                    KnownId(t) # NoId =>
                        /\ "notification_id" \in DOMAIN t[k].message
                        /\ t[k].message["notification_id"] = KnownId(t)
            /\ (h > 1 /\ KnownId(chain[h - 1]) # NoId) =>
                    t[1].notification_id = KnownId(chain[h - 1])

RejectedSends(trace) ==
    {k \in EventsOf(trace, "send_push_notification") :
        ~trace[k].invoked /\ trace[k].raised = CircuitOpenError}

\* the execution up to its acknowledgement
BeforeAck(trace) == SubSeq(trace, 1, Len(trace) - 1)

\* C18: an acknowledged execution whose gateway call was refused by the
\* OPEN breaker did what an execution does whose gateway call failed: below
\* max_retries it wrote 'retrying', slept the backoff of its attempt and
\* published one successor with attempt + 1 on push.queue.retry; at
\* max_retries it wrote 'failed' and published one message on
\* failed.queue with the breaker's error.  A message on failed.queue whose
\* attempts were all refused has four executions behind it, attempts 0 to
\* 3, none of which ran the gateway operation.
C18_OpenBreakerCountsAsFailure ==
    /\ (last.pc = "ack" /\ RejectedSends(last.trace) # {})
         => /\ Cardinality(EventsOf(last.trace, "send_push_notification")) = 1
            /\ IF Attempt < max_retries
               THEN /\ HopRetried(BeforeAck(last.trace), last.notification_id)
                    /\ \E k \in EventsOf(last.trace, "sleep") :
                            last.trace[k].delay = Backoff(Attempt)
                    /\ last.retry_tail.body.data["retry_count"] = Attempt + 1
               ELSE /\ HopDeadLettered(BeforeAck(last.trace), last.notification_id)
                    /\ last.failed_tail.body.data["error"] = CircuitOpenError
    /\ \A m \in Held(failed_queue) :
         (m.lineage # <<>> /\ \A h \in DOMAIN m.lineage : RejectedSends(m.lineage[h]) # {})
            => /\ Len(m.lineage) = max_retries + 1
               /\ \A h \in DOMAIN m.lineage : m.lineage[h][1].attempt = h - 1
               /\ GatewayAttempts(m.lineage) = {}

C18_Witness ==
    \E m \in Held(failed_queue) :
        /\ Len(m.lineage) = max_retries + 1
        /\ \A h \in DOMAIN m.lineage : RejectedSends(m.lineage[h]) # {}
        /\ GatewayAttempts(m.lineage) = {}
        /\ m.body.data["error"] = CircuitOpenError
        /\ breaker.state = "OPEN"

\* the gateway call that unit i has just come back from, in a step of
\* SendPush(i)
CallJustMade(i) ==
    IF units'[i] = IdleUnit
    THEN last'.trace[Len(last'.trace) - 1]
    ELSE LastOf(units'[i].trace)

\* C25 (checked under Spec, two messages in flight on the one breaker): at
\* most one execution is inside CircuitBreaker.call at a time; the state is
\* OPEN only with failures at or above the threshold; and failures changes
\* only by the call an execution comes back from: one more when the
\* operation was invoked and raised, back to 0 when it returned as the probe
\* of a HALF_OPEN breaker, unchanged when it returned otherwise or was not
\* invoked.  No other step touches the breaker.
C25_BreakerAccessSerialized ==
    /\ [](Cardinality(Blocking) <= 1)
    /\ [](breaker.state = "OPEN" => breaker.failures >= breaker.failure_threshold)
    /\ [][ IF \E i \in DOMAIN units : units[i].pc = "send" /\ units'[i] # units[i]
           THEN \A i \in DOMAIN units :
                    (units[i].pc = "send" /\ units'[i] # units[i]) =>
                        LET c == CallJustMade(i)
                        IN  /\ c.ev = "send_push_notification"
                            /\ breaker'.failures =
                                 IF ~c.invoked THEN breaker.failures
                                 ELSE IF c.raised # "none" THEN breaker.failures + 1
                                 ELSE IF CallEntry(breaker, now).state = "HALF_OPEN" THEN 0
                                 ELSE breaker.failures
           ELSE breaker' = breaker ]_vars

\* the breaker has opened on the failures of two messages that are both in
\* flight
C25_Witness ==
    /\ breaker.state = "OPEN"
    /\ breaker.failures = GatewayThreshold
    /\ \A i \in DOMAIN units :
         /\ units[i].pc # "idle"
         /\ \E k \in FailedSends(units[i].trace) : units[i].trace[k].invoked
    /\ units[1].msg # units[2].msg

(***************************************************************************)
(* Termination (checked under SpecParsed: every body parses, no            *)
(* collaborator raises, the consumer is never stalled).                    *)
(***************************************************************************)
\* nothing is waiting or in flight, and no record is 'retrying'
Settled ==
    /\ push_queue = <<>>
    /\ retry_queue = <<>>
    /\ \A i \in 1..Units : units[i].pc = "idle"
    /\ \A id \in DOMAIN records : records[id].status # "retrying"

\* C28: no message has more than max_retries + 1 executions behind it, and
\* whenever a message is waiting on push.queue the service eventually
\* comes to rest with both queues empty, nothing in flight and no record
\* left 'retrying'.
C28_EveryMessageSettles ==
    /\ [](\A chain \in Chains : Len(chain) <= max_retries + 1)
    /\ (push_queue # <<>>) ~> Settled

(***************************************************************************)
(* Prefetch (checked under SpecBacklog).                                   *)
(***************************************************************************)
\* delivered to the process and not yet acknowledged; a unit in its backoff
\* delay (pc "sleep") is still inside message.process()
InFlight == {i \in DOMAIN units : units[i].pc # "idle"}

\* C29: the number of messages in flight (delivered and not yet
\* acknowledged, those waiting in their backoff delay included) never
\* exceeds the prefetch bound of 10 per process, although the consumer
\* subscribes to both the primary and the retry queue.
C29_InFlightWithinPrefetch == Cardinality(InFlight) <= prefetch_count

\* what the code does bound: the unacknowledged deliveries of each of the
\* two consumers
C29_EachConsumerWithinPrefetch ==
    \A q \in {PUSH, RETRY} : Len(Unacked(q)) <= prefetch_count

C29_BothConsumersWithinTwice == Cardinality(InFlight) <= 2 * prefetch_count

(***************************************************************************)
(* Suspension points (checked under Spec).                                 *)
(***************************************************************************)
\* the units at one of the suspension points named by `pcs`: "send" is the
\* gateway call of line 443, "sleep" the backoff delay of line 474
Waiting(pcs) == {i \in DOMAIN units : units[i].pc \in pcs}

\* every in-flight unit other than a unit waiting at `pcs` can take a step
OthersCanStep(pcs) ==
    \A i \in Waiting(pcs) :
        \A j \in InFlight \ {i} : ENABLED Step(j)

\* C30: suspension points do not block other processing units: while one
\* message's unit is waiting on its gateway call or on its backoff delay,
\* the units of the other in-flight messages can still take steps.
C30_SuspensionDoesNotBlock == OthersCanStep({"send", "sleep"})

\* the half that the code keeps: asyncio.sleep gives the loop back
C30_BackoffDoesNotBlock == OthersCanStep({"sleep"})

\* the half that it does not: nothing else runs during the gateway call
C30_GatewayCallBlocks ==
    \A i \in Waiting({"send"}) :
        \A j \in DOMAIN units \ {i} : ~ ENABLED Step(j)

C30_SleepWitness ==
    \E i \in Waiting({"sleep"}) : InFlight \ {i} # {}

C30_SendWitness ==
    \E i \in Waiting({"send"}) : InFlight \ {i} # {}

(***************************************************************************)
(* The publish contract (checked under SpecPublish).                       *)
(***************************************************************************)
QueueOf(routing_key) ==
    CASE routing_key = PUSH -> push_queue
      [] routing_key = RETRY -> retry_queue
      [] routing_key = DEAD -> failed_queue

\* the dicts that publish_message was given for `routing_key`, in order
GivenFor(routing_key) ==
    LET calls == SelectSeq(last, LAMBDA c : c.routing_key = routing_key)
    IN  [k \in 1..Len(calls) |-> calls[k].message]

AllPublished == push_queue \o retry_queue \o failed_queue

KeyedBy(msg) == KeyTruthy(Get(msg.body.data, "idempotency_key", NoKey))

\* C31: every published message is persistent and carries a correlation id
\* equal to the payload's idempotency key when one is present and non-empty,
\* otherwise a freshly generated token that no other message carries; the
\* body is the given payload unchanged.
C31_PublishContract ==
    /\ \A routing_key \in RoutingKeys :
        /\ Len(QueueOf(routing_key)) = Len(GivenFor(routing_key))
        /\ \A k \in 1..Len(QueueOf(routing_key)) :
            LET msg == QueueOf(routing_key)[k]
            IN  /\ msg.delivery_mode = "PERSISTENT"
                /\ Parses(msg)
                /\ msg.body.data = GivenFor(routing_key)[k]
    /\ \A k \in 1..Len(AllPublished) :
        LET msg == AllPublished[k]
        IN  IF KeyedBy(msg)
            THEN msg.correlation_id = msg.body.data["idempotency_key"]
            ELSE /\ msg.correlation_id \in {Uuid4(n) : n \in 1..produced}
                 /\ \A j \in 1..Len(AllPublished) :
                        j # k => AllPublished[j].correlation_id # msg.correlation_id

\* messages with a key, with an empty key, with key None and without the
\* entry have all been published
C31_Witness ==
    /\ \E k \in 1..Len(AllPublished) : KeyedBy(AllPublished[k])
    /\ \E k \in 1..Len(AllPublished) :
            Get(AllPublished[k].body.data, "idempotency_key", NoKey) = ""
    /\ \E j, k \in 1..Len(AllPublished) :
            /\ j # k
            /\ ~ KeyedBy(AllPublished[j])
            /\ ~ KeyedBy(AllPublished[k])

(***************************************************************************)
(* What a hop rewrites (checked under SpecFaults).                         *)
(***************************************************************************)
\* the executions the state holds: in flight, and the last one finished
Executions == {units[i] : i \in DOMAIN units} \cup {last}

\* dict `new` is dict `old` but for the entries named by `fields`
SameBut(new, old, fields) ==
    /\ (DOMAIN new) \ fields = (DOMAIN old) \ fields
    /\ \A f \in (DOMAIN old) \ fields : new[f] = old[f]

\* C32: across a hop the delivery request is unchanged except for
\* retry_count and notification_id: the dict an execution publishes on the
\* retry routing key equals the dict it dequeued in every other field, and
\* the dict it publishes on the dead-letter routing key is the dict it
\* dequeued plus exactly the fields error and notification_id.
C32_HopRewritesOnlyAttemptAndId ==
    \A u \in Executions :
        \A k \in EventsOf(u.trace, "publish_message") :
            Parses(u.msg) =>
                LET sent == u.trace[k].message
                    got == u.msg.body.data
                IN  /\ u.trace[k].routing_key = RETRY =>
                            SameBut(sent, got, {"retry_count", "notification_id"})
                    /\ u.trace[k].routing_key = DEAD =>
                            /\ SameBut(sent, got, {"error", "notification_id"})
                            /\ {"error", "notification_id"} \subseteq DOMAIN sent

\* a keyed request that was retried max_retries times and then published on
\* the dead-letter key: its key, title and token are those first dequeued
C32_Witness ==
    /\ EventsOf(last.trace, "publish_message") # {}
    /\ Len(last.msg.lineage) = max_retries
    /\ Parses(last.msg)
    /\ Get(last.failed_tail.body.data, "idempotency_key", NoKey) \in Keys
    /\ \E k \in EventsOf(last.trace, "publish_message") :
            /\ last.trace[k].routing_key = DEAD
            /\ last.trace[k].message = last.failed_tail.body.data
    /\ \E k \in EventsOf(last.msg.lineage[1], "publish_message") :
            last.msg.lineage[1][k].routing_key = RETRY

(***************************************************************************)
(* The gateway client is single-shot (checked under Spec).                 *)
(***************************************************************************)
\* the gateway calls of the execution in which _send was run
InvokedSends(trace) ==
    {k \in EventsOf(trace, "send_push_notification") : trace[k].invoked}

\* the guard answered that the key of the execution's message exists
FoundDuplicate(trace) ==
    \E k \in EventsOf(trace, "check_idempotency") : trace[k].found

\* the token of the execution's message is shorter than line 404 asks
InvalidToken(u) ==
    /\ Parses(u.msg)
    /\ PayloadValid(u.msg.body.data)
    /\ u.msg.body.data["token"] < MinTokenLen

\* the trace, after the step, of the execution that unit i was running
TraceAfter(i) == IF units'[i].pc = "idle" THEN last'.trace ELSE units'[i].trace

\* C33: within the processing of one dequeued message
\* send_push_notification is called at most once, and the gateway operation
\* is not run at all when the message is a guard duplicate, when its token
\* is invalid, or when the breaker is OPEN and refuses the call; a further
\* attempt is made only by the execution of a message dequeued later.
C33_GatewaySingleShot ==
    /\ [](\A u \in Executions :
            /\ Cardinality(EventsOf(u.trace, "send_push_notification")) <= 1
            /\ FoundDuplicate(u.trace) => EventsOf(u.trace, "send_push_notification") = {}
            /\ InvalidToken(u) => EventsOf(u.trace, "send_push_notification") = {})
    /\ [][\A i \in DOMAIN units :
            (units[i].pc = "send" /\ units'[i] # units[i]) =>
                LET call == TraceAfter(i)[Len(units[i].trace) + 1]
                IN  /\ call.ev = "send_push_notification"
                    /\ call.invoked = ~CallRejected(breaker, now)
                    /\ CallRejected(breaker, now) => InvokedSends(TraceAfter(i)) = {}]_vars

\* an execution that the OPEN breaker refused, of a message whose first
\* execution ran the gateway operation once and failed
C33_Witness ==
    /\ RejectedSends(last.trace) # {}
    /\ InvokedSends(last.trace) = {}
    /\ last.msg.lineage # <<>>
    /\ Cardinality(InvokedSends(last.msg.lineage[1])) = 1

(***************************************************************************)
(* A publish that raises in the handler (checked under SpecFaults).        *)
(***************************************************************************)
\* the last call of the finished execution was a publish_message, on
\* `routing_key`, that raised: the exception left process_message
PublishEscaped(trace, routing_key) ==
    /\ Len(trace) >= 2
    /\ trace[Len(trace) - 1].ev = "publish_message"
    /\ trace[Len(trace) - 1].routing_key = routing_key
    /\ ~trace[Len(trace) - 1].ok

IsPrefix(s, t) == Len(s) <= Len(t) /\ SubSeq(t, 1, Len(s)) = s

C34_WitnessDeadLetter ==
    /\ PublishEscaped(last.trace, DEAD)
    /\ last.pc = "reject"
    /\ LastOf(failed_queue).body = last.msg.body

(***************************************************************************)
(* Ingestion (checked under SpecIngest).                                   *)
(***************************************************************************)
\* the calls of the request that the collaborator answered
Answered(trace, name) == {k \in EventsOf(trace, name) : trace[k].ok}

\* a step of the request handler
RequestStep == request' # request

\* C39: a request whose key the guard holds creates no record and publishes
\* nothing; a request answered "queued" has made exactly one insert, of a
\* record with status 'pending' and retry_count 0, and after it exactly one
\* publish, on push.queue, of a message with retry_count 0 and that
\* record's id; no publish is attempted before the record exists; and a
\* request whose insert or publish failed is answered with the error
\* response, having queued nothing.
C39_IngestionContract ==
    /\ [](LET t == request.trace
          IN  /\ FoundDuplicate(t) =>
                    /\ EventsOf(t, "create_notification") = {}
                    /\ EventsOf(t, "publish_message") = {}
                    /\ request.response # "queued"
              /\ Cardinality(EventsOf(t, "create_notification")) <= 1
              /\ Cardinality(EventsOf(t, "publish_message")) <= 1
              /\ \A k \in EventsOf(t, "publish_message") :
                    /\ t[k].routing_key = PUSH
                    /\ Get(t[k].message, "retry_count", NoCount) = 0
                    /\ \E j \in Answered(t, "create_notification") :
                            /\ j < k
                            /\ t[j].id \in DOMAIN records
                            /\ records[t[j].id].written[1] = "pending"
                            /\ records[t[j].id].idempotency_key
                                    = request.payload.idempotency_key
                            /\ Get(t[k].message, "notification_id", NoId) = t[j].id
              /\ request.response = "queued" =>
                    /\ Cardinality(Answered(t, "create_notification")) = 1
                    /\ Cardinality(Answered(t, "publish_message")) = 1
                    /\ ~FoundDuplicate(t)
              /\ request.pc = "idle" =>
                    /\ request.response \in Responses \cup {"none"}
                    /\ (\E k \in DOMAIN t :
                            t[k].ev \in {"create_notification", "publish_message"}
                            /\ ~t[k].ok)
                         => request.response = "error"
                    /\ (Answered(t, "publish_message") # {}) = (request.response = "queued"))
    /\ [][RequestStep =>
            /\ <<retry_queue', failed_queue'>> = <<retry_queue, failed_queue>>
            /\ IF request'.response = "queued" /\ request.pc = "publish"
               THEN /\ Len(push_queue') = Len(push_queue) + 1
                    /\ LastOf(push_queue').body.data
                            = LastOf(request'.trace).message
                    /\ SubSeq(push_queue', 1, Len(push_queue)) = push_queue
               ELSE push_queue' = push_queue
            /\ IF request.pc = "create" /\ request'.pc = "publish"
               THEN /\ Len(records') = Len(records) + 1
                    /\ SubSeq(records', 1, Len(records)) = records
                    /\ request'.notification_id = Len(records')
                    /\ LastOf(records').status = "pending"
                    /\ LastOf(records').retry_count = 0
               ELSE records' = records]_vars

\* a request with a client's key was queued and delivered, and a second
\* request with that key has been answered from the guard
C39_Witness ==
    /\ request.pc = "idle"
    /\ request.response = "already processed"
    /\ FoundDuplicate(request.trace)
    /\ request.payload.idempotency_key \in Keys
    /\ \E id \in DOMAIN records :
            /\ records[id].idempotency_key = request.payload.idempotency_key
            /\ records[id].written[1] = "pending"
            /\ records[id].status = "sent"
    /\ Len(records) = 1
    /\ push_queue = <<>>

C39_WitnessQueued ==
    /\ request.pc = "idle"
    /\ request.response = "queued"
    /\ push_queue # <<>>

C39_WitnessError ==
    /\ request.pc = "idle"
    /\ request.response = "error"
    /\ Answered(request.trace, "create_notification") # {}
    /\ push_queue = <<>>

(***************************************************************************)
(* Template versions (checked under SpecTemplates).                        *)
(***************************************************************************)
RowsOf(template_id) == {k \in DOMAIN versions : versions[k].template_id = template_id}

\* C40: create_new_template_version gives the new version the number
\* max(version numbers of the template's versions, default 0) + 1, so after
\* any sequence and any interleaving of version creations the version
\* numbers of the versions of one template are pairwise distinct.
C40_VersionNumbersDistinct ==
    \A template_id \in TemplateIds :
        \A j, k \in RowsOf(template_id) :
            j # k => versions[j].version # versions[k].version

\* what holds: a version inserted by a request that ran with no other
\* insert between its SELECT and its INSERT has the number max + 1 of the
\* versions before it, and if every version was inserted so the numbers of
\* a template are 1, 2, 3, ... without a repeat
C40_DistinctWithoutOverlap ==
    /\ \A k \in DOMAIN versions :
            ~versions[k].stale =>
                versions[k].version =
                    MaxVersion(VersionsOf(SubSeq(versions, 1, k - 1),
                                          versions[k].template_id)) + 1
    /\ (\A k \in DOMAIN versions : ~versions[k].stale) =>
            \A template_id \in TemplateIds :
                /\ C40_VersionNumbersDistinct
                /\ VersionsOf(versions, template_id)
                        = 1..Cardinality(RowsOf(template_id))

C40_SequentialWitness ==
    /\ Len(versions) = MaxVersions
    /\ \A k \in DOMAIN versions : ~versions[k].stale /\ versions[k].template_id = "t1"

(***************************************************************************)
(* Acknowledgement and redelivery (checked under SpecCrash).               *)
(***************************************************************************)
\* the per-message algorithm has run to one of its ends: the message was a
\* duplicate; or it was delivered and the bookkeeping that follows was done;
\* or, after the backoff sleep, it was republished on the retry key; or it
\* was published on the dead-letter key
Completed(e) ==
    LET t == e.trace
        key == IF Parses(e.msg) THEN IdempotencyKeyOf(e.msg.body.data) ELSE NoKey
    IN  \/ \E k \in EventsOf(t, "check_idempotency") : t[k].found
        \/ /\ \E k \in EventsOf(t, "send_push_notification") : t[k].raised = "none"
           /\ e.notification_id # NoId => WritesOf(t, "sent") # {}
           /\ key # NoKey => EventsOf(t, "set_idempotency") # {}
        \/ \E p \in PublishesTo(t, RETRY) :
                /\ t[p].ok
                /\ \E k \in EventsOf(t, "sleep") : k < p
                /\ e.retry_tail.body.data = t[p].message
        \/ \E p \in PublishesTo(t, DEAD) :
                /\ t[p].ok
                /\ e.failed_tail.body.data = t[p].message

\* C12: a step that acknowledges a message ends an execution that has run
\* to one of the ends of the algorithm, the acknowledgement being its last
\* event; a unit keeps the delivery it holds until then; and when the
\* process dies, every delivery held by a unit (whichever await it is
\* suspended at, the backoff sleep included) is back on the queue it came
\* from, and on no other.
C12_AckAfterCompletion ==
    [][/\ \A i \in 1..Units :
            /\ (units[i].pc # "idle" /\ units'[i].pc = "idle" /\ last'.pc = "ack"
                    /\ crashes' = crashes) =>
                    /\ last'.msg = units[i].msg
                    /\ LastOf(last'.trace) = Acked
                    /\ EventsOf(last'.trace, "ack") = {Len(last'.trace)}
                    /\ Completed(last')
            /\ (units[i].pc # "idle" /\ units'[i].pc # "idle") =>
                    units'[i].msg = units[i].msg
       /\ crashes' # crashes =>
            \A i \in 1..Units : units[i].pc # "idle" =>
                LET m == units[i].msg
                    from == units[i].trace[1].queue
                    Count(queue) == Cardinality({k \in DOMAIN queue : queue[k] = m})
                    Holders == {j \in 1..Units : units[j].pc # "idle" /\ units[j].msg = m
                                    /\ units[j].trace[1].queue = from}
                IN  /\ from = PUSH =>
                        Count(push_queue') = Count(push_queue) + Cardinality(Holders)
                    /\ from = RETRY =>
                        Count(retry_queue') = Count(retry_queue) + Cardinality(Holders)
                    /\ failed_queue' = failed_queue
                    /\ units'[i] = IdleUnit
      ]_vars

\* the process died while the only message ever produced was in its backoff:
\* its record is 'retrying', nothing was republished, and the message is
\* back on push.queue
C12_Witness ==
    /\ crashes = 1
    /\ produced = 1
    /\ Len(push_queue) = 1
    /\ retry_queue = <<>>
    /\ failed_queue = <<>>
    /\ Len(records) = 1
    /\ records[1].status = "retrying"
    /\ \A i \in 1..Units : units[i].pc = "idle"

(***************************************************************************)
(* Properties of the circuit breaker (checked under SpecCB).               *)
(***************************************************************************)
LastCall == cbLog.last
\* seconds between the last recorded failure and the entry of the last call
ElapsedAtEntry == LastCall.entered_at - LastCall.before.last_failure_time

\* C7: starting from a fresh CLOSED breaker, once failure_threshold calls
\* have been made and all of them failed the state is OPEN; and if the call
\* that follows them is made while now - last_failure_time <= timeout, it
\* raises 'Circuit breaker is OPEN' and the wrapped operation is not invoked.
C7_OpensAfterThresholdFailures ==
    LET th == breaker.failure_threshold
    IN  /\ (cbLog.calls = th /\ cbLog.lead_fails = th) => breaker.state = "OPEN"
        /\ (/\ cbLog.calls = th + 1
            /\ cbLog.lead_fails = th
            /\ ElapsedAtEntry <= breaker.timeout)
           => /\ ~LastCall.invoked
              /\ LastCall.raised = CircuitOpenError
              /\ breaker.state = "OPEN"

C7_Witness ==
    /\ breaker.failure_threshold >= 2
    /\ cbLog.calls = breaker.failure_threshold + 1
    /\ cbLog.lead_fails = breaker.failure_threshold
    /\ ~LastCall.invoked
    /\ LastCall.raised = CircuitOpenError

\* C8: a call that finds the breaker OPEN is rejected while
\* now - last_failure_time <= timeout; once now - last_failure_time > timeout
\* the operation is invoked with the breaker already HALF_OPEN, and if it
\* succeeds the call returns its result and the breaker is CLOSED with
\* failures = 0.
C8_OpenRejectsThenProbes ==
    (cbLog.calls > 0 /\ LastCall.before.state = "OPEN") =>
        /\ ElapsedAtEntry <= LastCall.before.timeout =>
              /\ ~LastCall.invoked
              /\ LastCall.raised = CircuitOpenError
        /\ ElapsedAtEntry > LastCall.before.timeout =>
              /\ LastCall.invoked
              /\ LastCall.at_invoke = "HALF_OPEN"
              /\ LastCall.op.ok =>
                    /\ LastCall.returned = LastCall.op.result
                    /\ LastCall.raised = "none"
                    /\ LastCall.after.state = "CLOSED"
                    /\ LastCall.after.failures = 0
                    /\ breaker = LastCall.after

C8_Witness ==
    /\ cbLog.calls > 0
    /\ LastCall.before.state = "OPEN"
    /\ LastCall.before.timeout > 0
    /\ ElapsedAtEntry = LastCall.before.timeout + 1
    /\ LastCall.op.ok
    /\ breaker.state = "CLOSED"
    /\ breaker.failures = 0

\* C9: when the probe call made in HALF_OPEN fails, the breaker is OPEN
\* again, last_failure_time is the time of that failure, and every call
\* entered within timeout seconds of it is rejected.
C9_FailedProbeReopens ==
    (cbLog.calls > 0 /\ LastCall.invoked /\ LastCall.at_invoke = "HALF_OPEN"
        /\ ~LastCall.op.ok) =>
        /\ LastCall.after.state = "OPEN"
        /\ LastCall.after.last_failure_time = LastCall.left_at
        /\ \A t \in LastCall.left_at .. LastCall.left_at + LastCall.after.timeout :
              CallRejected(LastCall.after, t)
        /\ breaker = LastCall.after

C9_Witness ==
    /\ cbLog.calls > 0
    /\ LastCall.invoked
    /\ LastCall.at_invoke = "HALF_OPEN"
    /\ ~LastCall.op.ok
    /\ LastCall.left_at > LastCall.before.last_failure_time
    /\ breaker.state = "OPEN"

\* C10: when the wrapped operation is invoked and fails, failures grows by
\* exactly 1, last_failure_time becomes the time of the failure, the state is
\* OPEN if failures >= failure_threshold and otherwise unchanged, and the
\* caller sees the operation's own error; 'Circuit breaker is OPEN' is
\* raised only by calls that did not invoke the operation.
C10_FailureBookkeepingThenOwnError ==
    cbLog.calls > 0 =>
        /\ (LastCall.invoked /\ ~LastCall.op.ok) =>
              /\ LastCall.after.failures = LastCall.before.failures + 1
              /\ LastCall.after.last_failure_time = LastCall.left_at
              /\ LastCall.after.state =
                    IF LastCall.after.failures >= LastCall.after.failure_threshold
                    THEN "OPEN" ELSE LastCall.at_invoke
              /\ LastCall.raised = LastCall.op.error
              /\ LastCall.raised # CircuitOpenError
        /\ LastCall.raised = CircuitOpenError => ~LastCall.invoked

C10_Witness ==
    /\ cbLog.calls > 0
    /\ LastCall.invoked
    /\ LastCall.raised = "RuntimeError: crash"
    /\ LastCall.before.state = "CLOSED"
    /\ breaker.state = "OPEN"
    /\ breaker.failures = breaker.failure_threshold

\* C35: a call that is rejected because the breaker is OPEN leaves failures,
\* last_failure_time and state as they were, so the cooldown still ends
\* timeout seconds after the last failure of the operation: the rejected
\* call does not move the time from which the next call is let through.
C35_RejectedCallChangesNothing ==
    (cbLog.calls > 0 /\ ~LastCall.invoked) =>
        /\ LastCall.raised = CircuitOpenError
        /\ LastCall.after.failures = LastCall.before.failures
        /\ LastCall.after.last_failure_time = LastCall.before.last_failure_time
        /\ LastCall.after.state = LastCall.before.state
        /\ breaker = LastCall.before
        /\ \A t \in 0..MaxNow + 1 :
                CallRejected(breaker, t) = CallRejected(LastCall.before, t)

\* a call rejected some time after the failure that opened the breaker
C35_Witness ==
    /\ cbLog.calls > 0
    /\ ~LastCall.invoked
    /\ breaker.state = "OPEN"
    /\ LastCall.entered_at > breaker.last_failure_time
    /\ breaker.failures >= breaker.failure_threshold

\* C36: over any sequence of calls on a breaker with failure_threshold >= 1,
\* the state is OPEN or HALF_OPEN only if failures >= failure_threshold and
\* last_failure_time is set, in between calls and while the operation runs;
\* the state CLOSED implies failures < failure_threshold; and failures goes
\* back to 0 only by a call that ran the operation in HALF_OPEN and
\* succeeded.
C36_BreakerInvariant ==
    /\ [](breaker.failure_threshold >= 1 =>
            /\ breaker.state \in {"OPEN", "HALF_OPEN"} =>
                    /\ breaker.failures >= breaker.failure_threshold
                    /\ breaker.last_failure_time # NoTime
            /\ breaker.state = "CLOSED" => breaker.failures < breaker.failure_threshold
            /\ (cbLog.calls > 0 /\ LastCall.invoked) =>
                    LET entered == CallEntry(LastCall.before, LastCall.entered_at)
                    IN  /\ entered.state = LastCall.at_invoke
                        /\ entered.state \in {"OPEN", "HALF_OPEN"} =>
                                /\ entered.failures >= entered.failure_threshold
                                /\ entered.last_failure_time # NoTime
                        /\ entered.state = "CLOSED" =>
                                entered.failures < entered.failure_threshold)
    /\ [][breaker'.failures < breaker.failures =>
                /\ breaker'.failures = 0
                /\ cbLog'.last.invoked
                /\ cbLog'.last.at_invoke = "HALF_OPEN"
                /\ cbLog'.last.op.ok]_vars

\* the count has gone back to 0 on a breaker that had opened at a threshold
\* above 1, and a later failure has been counted from there
C36_Witness ==
    /\ breaker.failure_threshold >= 2
    /\ breaker.state = "CLOSED"
    /\ breaker.failures = 1
    /\ breaker.last_failure_time # NoTime
    /\ cbLog.calls > breaker.failure_threshold + 1
    /\ cbLog.lead_fails = breaker.failure_threshold

\* C37: a call that succeeds while the breaker is CLOSED leaves failures
\* (and the state) unchanged, and a call that fails while it is CLOSED adds
\* 1 and opens the breaker exactly when the count has reached
\* failure_threshold: the breaker opens as soon as the failures counted
\* since construction or since the last successful probe number
\* failure_threshold, whether or not calls succeeded between them.
C37_SuccessKeepsCount ==
    (cbLog.calls > 0 /\ LastCall.invoked /\ LastCall.at_invoke = "CLOSED") =>
        /\ LastCall.op.ok =>
                /\ LastCall.after.failures = LastCall.before.failures
                /\ LastCall.after.state = "CLOSED"
                /\ LastCall.after.last_failure_time = LastCall.before.last_failure_time
        /\ ~LastCall.op.ok =>
                /\ LastCall.after.failures = LastCall.before.failures + 1
                /\ (LastCall.after.state = "OPEN")
                        = (LastCall.after.failures >= LastCall.after.failure_threshold)
        /\ breaker = LastCall.after

\* three calls on a fresh breaker with threshold 2, one of which succeeded
\* before the last one failed: the breaker is OPEN
C37_Witness ==
    /\ breaker.failure_threshold = 2
    /\ cbLog.calls = 3
    /\ cbLog.lead_fails = 1
    /\ LastCall.invoked
    /\ LastCall.before.state = "CLOSED"
    /\ LastCall.before.failures = 1
    /\ ~LastCall.op.ok
    /\ breaker.state = "OPEN"

\* C38: HALF_OPEN lasts only while the probe call runs: once a call has
\* returned or raised the state is CLOSED or OPEN, so nothing that reads the
\* state between calls (health_check) sees HALF_OPEN; and one expiry of the
\* cooldown lets one probe through: after it the breaker is CLOSED, or OPEN
\* with the cooldown started again at the probe's failure.
C38_HalfOpenIsTransient ==
    /\ breaker.state \in {"CLOSED", "OPEN"}
    /\ (cbLog.calls > 0 /\ LastCall.invoked /\ LastCall.at_invoke = "HALF_OPEN") =>
            /\ LastCall.before.state = "OPEN"
            /\ \/ breaker.state = "CLOSED" /\ LastCall.op.ok
               \/ /\ breaker.state = "OPEN"
                  /\ ~LastCall.op.ok
                  /\ \A t \in LastCall.left_at .. LastCall.left_at + breaker.timeout :
                        ~Call(breaker, t, LastCall.op).invoked

\* a probe that succeeded, and so ended the only visit to HALF_OPEN
C38_Witness ==
    /\ cbLog.calls > 0
    /\ LastCall.invoked
    /\ LastCall.at_invoke = "HALF_OPEN"
    /\ LastCall.before.state = "OPEN"
    /\ LastCall.op.duration > 0
    /\ LastCall.after.state = "CLOSED"
    /\ breaker.state = "CLOSED"

\* the same for the breaker of the service, in every state in which a
\* request handler can run
C38_HealthNeverSeesHalfOpen == breaker.state \in {"CLOSED", "OPEN"}

=============================================================================
